---- MODULE Spec2Model ----
(***************************************************************************)
(* A state-machine model of libdata-source: the BaseSource lifecycle      *)
(* contract (include/base-source.h) and the HidensSource protocol client  *)
(* (src/hidens-source.cc).                                                 *)
(*                                                                         *)
(* Every slot / signal handler of the source runs to completion on the    *)
(* source's own thread, so one action of the model is one whole handler,  *)
(* including the blocking command/reply exchanges it performs.  What the  *)
(* handler sent to the server and which signals it emitted, in order, is  *)
(* recorded in `out` (the trace of the most recent handler only).         *)
(***************************************************************************)
EXTENDS Integers, Sequences, FiniteSets, TLC

VARIABLES
    hid,    \* the HidensSource object: its fields, socket and read timer
    net,    \* the connection: unread bytes of frames, and whether the server pushes frames
    op,     \* the request or event most recently handled by the HidensSource
    out,    \* what that handler sent and emitted, in order
    now,    \* wall clock (QDateTime::currentDateTime), 1..MaxClock
    base,   \* a plain BaseSource object
    bop,    \* the request most recently handled by the BaseSource
    bout,   \* the signal that request was answered with
    codec,  \* a parameter on its way through datasource::serialize and deserialize
    fpga,   \* the worker thread running sendConfigToFpga: its position and locals
    acq,    \* the bytes of a stream on their way through recvDataFrame
    fsrc    \* a FileSource object: its state, position in the file and read timer

vars == <<hid, net, op, out, now, base, bop, bout, codec, fpga, acq, fsrc>>

(***************************************************************************)
(* Bounds of the model.                                                    *)
(***************************************************************************)
MaxClock == 3

\* Most bytes of streamed frames received and not yet read at any time.
MaxRx == 3

\* Most uploads started before one of them has reported its result, and most
\* uploads running at a time.
MaxUploads == 2

\* Most samples of an analog output and most electrodes of a configuration
\* put on the wire.
MaxVector == 2

(***************************************************************************)
(* Program constants.                                                      *)
(***************************************************************************)
\* A quint32 is held as the 32-bit two's complement integer with the same
\* bits, so that static_cast<quint32>(-1), the "unset" value of m_plug and
\* m_chipId, is -1 and compares above every other value.
UnsetU32 == -1

\* a > b for two quint32.
UGreater(x, y) == IF (x < 0) = (y < 0) THEN x > y ELSE x < 0

\* The null QDateTime{}.
NullTime == 0

\* A null QByteArray, as returned by getHidensReply after a timeout.
NullReply == "<null>"

\* The chip id with which the server signals "no chip in this plug".
NoChipId == 65535

MsgTimeout == "Communication with the HiDens data server timed out."
MsgDisconnected == "Unexpectedly disconnected from HiDens data server."
MsgSendError == "Error sending request to HiDens data server."
MsgInitComm == "Error initializing communication with HiDens data server."
MsgNoSampleRate == "Could not retrieve sampling rate from HiDens server."
MsgNoGain == "Could not retrieve gain from HiDens server."
MsgNoAdcRange == "Could not retrieve ADC range from HiDens server."
MsgNoConnect == "Could not connect to HiDens data server."
MsgInitState == "Can only initialize from 'invalid' state."
MsgStartState == "Can only start stream from the 'connected' state."
MsgStopState == "Can only stop stream from the 'streaming' state."
MsgSetState == "Can only set parameters while in the 'initialized' state."

(***************************************************************************)
(* Floating point values: a number (in units in which the replies of the  *)
(* model are whole), an infinity, or NaN.                                  *)
(***************************************************************************)
Num(v) == [k |-> "num", v |-> v]
NaN == [k |-> "nan", v |-> 0]
Inf(sign) == [k |-> "inf", v |-> sign]

\* IEEE-754 division a / b of two numbers.
FDiv(a, b) ==
    IF a.k = "nan" \/ b.k = "nan" THEN NaN
    ELSE IF a.k = "inf" /\ b.k = "inf" THEN NaN
    ELSE IF a.k = "inf" THEN Inf(IF b.v < 0 THEN 0 - a.v ELSE a.v)
    ELSE IF b.k = "inf" THEN Num(0)
    ELSE IF b.v = 0 THEN (IF a.v = 0 THEN NaN ELSE Inf(IF a.v < 0 THEN 0 - 1 ELSE 1))
    ELSE IF (a.v < 0) = (b.v < 0) \/ a.v = 0
         THEN Num((IF a.v < 0 THEN 0 - a.v ELSE a.v) \div (IF b.v < 0 THEN 0 - b.v ELSE b.v))
         ELSE Num(0 - ((IF a.v < 0 THEN 0 - a.v ELSE a.v) \div (IF b.v < 0 THEN 0 - b.v ELSE b.v)))

\* x < c and x > c for a float x and an integer literal c (false for NaN).
FLess(x, c) == (x.k = "num" /\ x.v < c) \/ (x.k = "inf" /\ x.v < 0)
FGreater(x, c) == (x.k = "num" /\ x.v > c) \/ (x.k = "inf" /\ x.v > 0)

(***************************************************************************)
(* Server replies.  A reply is a line of text; the model enumerates the   *)
(* lines below and tabulates what QByteArray::startsWith("Error"),        *)
(* toFloat and toUInt make of each.                                        *)
(***************************************************************************)
TextReplies == {"OK", "Error: no device"}
NumberReplies == {"20000", "256", "-256", "1", "0", "1234", "65535", "abc"}

StartsWithError(r) == r = "Error: no device"

\* QByteArray::toFloat: <<ok, value>>; 0.0 when the text is not a number.
ToFloat(r) ==
    CASE r = "20000" -> <<TRUE, Num(20000)>>
      [] r = "256" -> <<TRUE, Num(256)>>
      [] r = "1" -> <<TRUE, Num(1)>>
      [] r = "0" -> <<TRUE, Num(0)>>
      [] r = "-256" -> <<TRUE, Num(0 - 256)>>
      [] r = "1234" -> <<TRUE, Num(1234)>>
      [] r = "65535" -> <<TRUE, Num(65535)>>
      [] OTHER -> <<FALSE, Num(0)>>

\* QByteArray::toUInt: <<ok, value>>; fails on a sign and on non-digits.
ToUInt(r) ==
    CASE r = "20000" -> <<TRUE, 20000>>
      [] r = "256" -> <<TRUE, 256>>
      [] r = "1" -> <<TRUE, 1>>
      [] r = "0" -> <<TRUE, 0>>
      [] r = "1234" -> <<TRUE, 1234>>
      [] r = "65535" -> <<TRUE, 65535>>
      [] OTHER -> <<FALSE, 0>>

(***************************************************************************)
(* Trace events of a handler.                                              *)
(***************************************************************************)
Send(cmd) == [k |-> "send", n |-> cmd, a |-> 0, p |-> "", ok |-> TRUE, msg |-> ""]
SendA(cmd, arg) == [k |-> "send", n |-> cmd, a |-> arg, p |-> "", ok |-> TRUE, msg |-> ""]
Recv(reply) == [k |-> "recv", n |-> reply, a |-> 0, p |-> "", ok |-> TRUE, msg |-> ""]
Emit(sig, ok, msg) == [k |-> "emit", n |-> sig, a |-> 0, p |-> "", ok |-> ok, msg |-> msg]
EmitP(sig, param, ok, msg) == [k |-> "emit", n |-> sig, a |-> 0, p |-> param, ok |-> ok, msg |-> msg]

Sends(tr) == SelectSeq(tr, LAMBDA e : e.k = "send")
Emits(tr, sig) == SelectSeq(tr, LAMBDA e : e.k = "emit" /\ e.n = sig)

(***************************************************************************)
(* The HidensSource object.                                                *)
(***************************************************************************)
\* m_ntotalChannels and m_hidensFrameSize (126 and 131 in the program; the
\* model keeps the five non-electrode bytes that end the frame).
MaxChannels == 3
m_ntotalChannels == MaxChannels
m_hidensFrameSize == m_ntotalChannels + 5

\* m_electrodeIndices after fill(-1) and marking the photodiode channel.
BlankElectrodeIndices ==
    [i \in 0 .. (m_hidensFrameSize - 1) |->
        IF i = m_hidensFrameSize - 1 THEN 1 ELSE 0 - 1]

\* m_state as the BaseSource constructor of include/base-source.h leaves it.
CtorState == "disconnected"

\* m_state after construction in the three-state lifecycle which
\* hidens-source.cc is written against (BaseSource::initialize and the
\* initialized() signal are not declared by include/base-source.h).
LifecycleStartState == "invalid"

\* m_configFuture: no task yet, a task running on the worker, its result
\* waiting for the watcher to report it, or its result after the report.
NoFuture == [st |-> "none", ok |-> FALSE, file |-> ""]
RunningFuture(file) == [st |-> "running", ok |-> FALSE, file |-> file]
FinishedFuture(ok, file) == [st |-> "finished", ok |-> ok, file |-> file]
ReportedFuture(f) == [f EXCEPT !.st = "reported"]

\* The object after HidensSource::HidensSource, with m_state = st.
NewHidensSource(st) ==
    [ m_state |-> st,
      m_connectTime |-> NullTime,
      m_startTime |-> NullTime,
      m_configuration |-> << >>,
      m_configurationFile |-> "",
      m_sampleRate |-> Num(20000),
      m_gain |-> NaN,
      m_adcRange |-> NaN,
      m_deviceGain |-> Num(0),
      m_nchannels |-> 0,
      m_plug |-> UnsetU32,
      m_chipId |-> UnsetU32,
      m_trigger |-> "none",
      m_analogOutput |-> << >>,
      m_electrodeIndices |-> BlankElectrodeIndices,
      m_channelIndices |-> << >>,
      sock |-> "unconnected",      \* m_socket->state()
      pendingClose |-> FALSE,      \* disconnectFromHost() asked while connecting
      initHooks |-> FALSE,         \* connected/error -> handleConnectionMade
      discHook |-> FALSE,          \* disconnected -> handleDisconnect
      timer |-> FALSE,             \* m_readTimer->isActive()
      future |-> NoFuture,         \* m_configFuture
      watchHook |-> 0,             \* connections m_configWatcher finished -> handleConfigSendResponse
      orphans |-> 0,               \* running uploads that m_configFuture no longer refers to
      hung |-> FALSE ]             \* the thread spins in askHidens' write loop

\* The fields BaseSource::handleError resets.
DeviceFieldsCleared(o) ==
    /\ o.m_connectTime = NullTime
    /\ o.m_startTime = NullTime
    /\ o.m_configuration = << >>
    /\ o.m_gain = NaN
    /\ o.m_adcRange = NaN
    /\ o.m_nchannels = 0
    /\ o.m_plug = UnsetU32
    /\ o.m_chipId = UnsetU32
    /\ o.m_trigger = "none"
    /\ o.m_analogOutput = << >>

(***************************************************************************)
(* A handler works on a context c = [h |-> object, out |-> trace].        *)
(***************************************************************************)
Ctx(o) == [h |-> o, out |-> << >>]
Trace(c, e) == [c EXCEPT !.out = Append(@, e)]

\* QObject::disconnect(m_socket, 0, 0, 0)
DisconnectSignals(o) == [o EXCEPT !.initHooks = FALSE, !.discHook = FALSE]

\* m_socket->disconnectFromHost(): a connected socket closes; a socket that
\* is still connecting closes as soon as the connection is made.
DisconnectFromHost(o) ==
    IF o.sock = "connecting" THEN [o EXCEPT !.pendingClose = TRUE]
    ELSE [o EXCEPT !.sock = "unconnected"]

\* The state BaseSource::handleError leaves the source in.
ErrorState == "disconnected"

\* BaseSource::handleError
BaseHandleError(c, message) ==
    Trace([c EXCEPT !.h = [@ EXCEPT !.m_state = ErrorState,
                                    !.m_connectTime = NullTime,
                                    !.m_startTime = NullTime,
                                    !.m_configuration = << >>,
                                    !.m_gain = NaN,
                                    !.m_adcRange = NaN,
                                    !.m_nchannels = 0,
                                    !.m_plug = UnsetU32,
                                    !.m_chipId = UnsetU32,
                                    !.m_trigger = "none",
                                    !.m_analogOutput = << >>]],
          Emit("error", FALSE, message))

\* handleError without the socket teardown: the base class transition alone.
handleError_NoTeardown(c, msg) == BaseHandleError(c, msg)

\* HidensSource::handleError
handleError(c, msg) ==
    BaseHandleError([c EXCEPT !.h = DisconnectFromHost(DisconnectSignals(@))], msg)

\* HidensSource::askHidens.  QTcpSocket::write queues the bytes of a
\* connected socket and returns -1 on a socket that is not connected; after
\* a failed write the do-while loop writes again, with the same result.
askHidens(c, cmd) ==
    IF c.h.hung THEN c
    ELSE IF c.h.sock = "connected" THEN Trace(c, cmd)
    ELSE LET e == handleError([c EXCEPT !.h = DisconnectFromHost(DisconnectSignals(@))],
                              MsgSendError)
         IN  [e EXCEPT !.h.hung = TRUE]

\* HidensSource::getHidensReply: w is the line the server answers with, or
\* NullReply when waitForReadyRead(RequestWaitTime) times out.
getHidensReply(c, w) ==
    IF c.h.hung THEN [c |-> c, reply |-> NullReply]
    ELSE IF w = NullReply THEN [c |-> handleError(c, MsgTimeout), reply |-> NullReply]
    ELSE [c |-> Trace(c, Recv(w)), reply |-> w]

\* HidensSource::verifyReply
verifyReply(reply) == reply # NullReply /\ ~StartsWithError(reply)

\* One command/reply exchange: askHidens(cmd); getHidensReply().
Exchange(c, cmd, w) == getHidensReply(askHidens(c, cmd), w)

\* The failure exits of handleConnectionMade after the connection was made.
AbortHandshake(c, msg) ==
    Trace([c EXCEPT !.h = DisconnectFromHost(@)], Emit("initialized", FALSE, msg))

\* The handshake with the gain asked for before the sampling rate.
HandshakeCommands_GainFirst ==
    << Send("setbytes"), Send("header_frameno off"), Send("client_name blds"),
       Send("gain 0"), Send("sr"), Send("adc_range") >>

\* The commands of the handshake, in the order of handleConnectionMade.
HandshakeCommands ==
    << Send("setbytes"), Send("header_frameno off"), Send("client_name blds"),
       Send("sr"), Send("gain 0"), Send("adc_range") >>

\* HidensSource::handleConnectionMade(made): ws[i] is the server's answer
\* to the i-th command of the handshake, t the current time.
handleConnectionMade(c0, made, ws, t) ==
    LET c == [c0 EXCEPT !.h = DisconnectSignals(@)] IN
    IF ~made
    THEN Trace([c EXCEPT !.h = [DisconnectFromHost(@) EXCEPT !.m_connectTime = NullTime]],
               Emit("initialized", FALSE, MsgNoConnect))
    ELSE
    LET x1 == Exchange(c, HandshakeCommands[1], ws[1]) IN
    IF x1.c.h.hung THEN x1.c
    ELSE IF ~verifyReply(x1.reply) THEN AbortHandshake(x1.c, MsgInitComm)
    ELSE
    LET x2 == Exchange(x1.c, HandshakeCommands[2], ws[2]) IN
    IF x2.c.h.hung THEN x2.c
    ELSE IF ~verifyReply(x2.reply) THEN AbortHandshake(x2.c, MsgInitComm)
    ELSE
    LET x3 == Exchange(x2.c, HandshakeCommands[3], ws[3]) IN
    IF x3.c.h.hung THEN x3.c
    ELSE IF ~verifyReply(x3.reply) THEN AbortHandshake(x3.c, MsgInitComm)
    ELSE
    LET x4 == Exchange(x3.c, HandshakeCommands[4], ws[4])
        sr == ToFloat(x4.reply)
        c4 == [x4.c EXCEPT !.h.m_sampleRate = sr[2]]
    IN
    IF x4.c.h.hung THEN x4.c
    ELSE IF ~sr[1] THEN AbortHandshake(c4, MsgNoSampleRate)
    ELSE
    LET x5 == Exchange(c4, HandshakeCommands[5], ws[5])
        gain == ToFloat(x5.reply)
    IN
    IF x5.c.h.hung THEN x5.c
    ELSE IF ~gain[1] THEN AbortHandshake(x5.c, MsgNoGain)
    ELSE
    LET c5 == [x5.c EXCEPT !.h.m_deviceGain = gain[2]]
        x6 == Exchange(c5, HandshakeCommands[6], ws[6])
        adcRange == ToFloat(x6.reply)
    IN
    IF x6.c.h.hung THEN x6.c
    ELSE IF ~adcRange[1] THEN AbortHandshake(x6.c, MsgNoAdcRange)
    ELSE
    Trace([x6.c EXCEPT !.h = [@ EXCEPT
                !.m_adcRange = adcRange[2],
                !.m_gain = FDiv(FDiv(adcRange[2], Num(256)), x6.c.h.m_deviceGain),
                !.discHook = TRUE,
                !.m_state = "initialized",
                !.m_connectTime = t]],
          Emit("initialized", TRUE, ""))

(***************************************************************************)
(* Electrode configuration retrieval.                                      *)
(***************************************************************************)
\* The lines a channel report may hold: blank (unconnected) or the index
\* of the connected electrode.
ChannelLines == {"", "0 ", "2"}

\* stripFunction: chop one trailing space.
StripFunction(line) ==
    CASE line = "0 " -> "0"
      [] line = " " -> ""
      [] OTHER -> line

\* QString::toInt of a channel line.
ToInt(line) ==
    CASE line = "0" -> 0
      [] line = "2" -> 2
      [] OTHER -> 0

\* What readAll() returns after 'ch 0-125': nothing within the wait budget,
\* an error line, or the report, one line per possible channel.
TimedOutReport == [null |-> TRUE, err |-> FALSE, lines |-> << >>]
ErrorReport == [null |-> FALSE, err |-> TRUE, lines |-> << >>]
Report(l) == [null |-> FALSE, err |-> FALSE, lines |-> l]
ChannelReports == { Report(l) : l \in [1 .. m_ntotalChannels -> ChannelLines] }

\* The reports drawn within a session: no channel connected; electrode 0
\* on the first channel and electrode 2 on the others.
SessionReports ==
    { Report([i \in 1 .. m_ntotalChannels |-> ""]),
      Report([i \in 1 .. m_ntotalChannels |-> IF i = 1 THEN "0 " ELSE "2"]) }

\* The loop over channelStringList: position n (from 0) takes the parsed
\* index of a non-blank line n.
ParseElectrodeIndices(lines) ==
    [i \in 0 .. (m_hidensFrameSize - 1) |->
        IF i < Len(lines) /\ StripFunction(lines[i + 1]) # ""
        THEN ToInt(StripFunction(lines[i + 1]))
        ELSE BlankElectrodeIndices[i]]

CountConnected(lines) ==
    Cardinality({i \in 1 .. Len(lines) : StripFunction(lines[i]) # ""})

\* arma::find(v > 0): the positions holding a value above zero, ascending.
RECURSIVE FindPositive(_, _)
FindPositive(v, i) ==
    IF i > m_hidensFrameSize - 1 THEN << >>
    ELSE (IF v[i] > 0 THEN <<i>> ELSE << >>) \o FindPositive(v, i + 1)

\* The loop building m_configuration: one Electrode per position of the
\* first m_ntotalChannels whose entry is not -1, in channel order.
RECURSIVE ParseConfiguration(_, _)
ParseConfiguration(v, i) ==
    IF i > m_ntotalChannels - 1 THEN << >>
    ELSE (IF v[i] = 0 - 1 THEN << >> ELSE << [index |-> v[i]] >>)
         \o ParseConfiguration(v, i + 1)

MsgNoConfiguration == "Could not retrieve configuration from HiDens server."
MsgNoElectrodeList == "Electrode configuration file 'electrode-list.txt' is missing!"

\* HidensSource::getConfigurationFromServer: rep is what the socket holds
\* after the wait, haveList whether the resource ':/electrode-list.txt' exists.
getConfigurationFromServer(c0, rep, haveList) ==
    LET c == askHidens(c0, Send("ch 0-125")) IN
    IF c.h.hung THEN c
    ELSE IF rep.null THEN handleError(c, MsgTimeout)
    ELSE IF rep.err THEN handleError(c, MsgNoConfiguration)
    ELSE
    LET idx == ParseElectrodeIndices(rep.lines)
        c1 == [c EXCEPT !.h = [@ EXCEPT !.m_electrodeIndices = idx,
                                        !.m_nchannels = CountConnected(rep.lines),
                                        !.m_channelIndices = FindPositive(idx, 0)]]
    IN
    IF ~haveList
    THEN handleError([c1 EXCEPT !.h.m_configuration = << >>], MsgNoElectrodeList)
    ELSE [c1 EXCEPT !.h.m_configuration = ParseConfiguration(idx, 0)]

(***************************************************************************)
(* Requests.                                                               *)
(***************************************************************************)
MsgStartPlug == "Cannot start HiDens data stream with source plug = %1"
MsgStartConfig == "Cannot initialize HiDens source with empty configuration."
MsgStartGain == "Cannot initialize HiDens source with gain = %1"

\* The read interval HidensSource::HidensSource passes to BaseSource, in ms.
m_readInterval == 10

\* HidensSource::requestData: the command is method + " " + m_readInterval.
requestData(c, method) == askHidens(c, SendA(method, m_readInterval))

\* startStream that answers before m_state is assigned.
startStream_StateKept(c) ==
    IF c.h.m_state = "initialized"
    THEN IF UGreater(c.h.m_plug, 4)
         THEN Trace(c, Emit("streamStarted", FALSE, MsgStartPlug))
         ELSE IF Len(c.h.m_configuration) = 0
         THEN Trace(c, Emit("streamStarted", FALSE, MsgStartConfig))
         ELSE IF c.h.m_gain.k = "nan" \/ FLess(c.h.m_gain, 0) \/ FGreater(c.h.m_gain, 10000)
         THEN Trace(c, Emit("streamStarted", FALSE, MsgStartGain))
         ELSE LET c1 == requestData(c, "live") IN
              IF c1.h.hung THEN c1
              ELSE Trace([c1 EXCEPT !.h.timer = TRUE], Emit("streamStarted", TRUE, ""))
    ELSE Trace(c, Emit("streamStarted", FALSE, MsgStartState))

\* startStream without the check of the gain.
startStream_NoGainCheck(c) ==
    IF c.h.m_state = "initialized"
    THEN IF UGreater(c.h.m_plug, 4)
         THEN Trace(c, Emit("streamStarted", FALSE, MsgStartPlug))
         ELSE IF Len(c.h.m_configuration) = 0
         THEN Trace(c, Emit("streamStarted", FALSE, MsgStartConfig))
         ELSE LET c1 == requestData([c EXCEPT !.h.m_state = "streaming"], "live") IN
              IF c1.h.hung THEN c1
              ELSE Trace([c1 EXCEPT !.h.timer = TRUE], Emit("streamStarted", TRUE, ""))
    ELSE Trace(c, Emit("streamStarted", FALSE, MsgStartState))

\* HidensSource::startStream
startStream(c) ==
    IF c.h.m_state = "initialized"
    THEN IF UGreater(c.h.m_plug, 4)
         THEN Trace(c, Emit("streamStarted", FALSE, MsgStartPlug))
         ELSE IF Len(c.h.m_configuration) = 0
         THEN Trace(c, Emit("streamStarted", FALSE, MsgStartConfig))
         ELSE IF c.h.m_gain.k = "nan" \/ FLess(c.h.m_gain, 0) \/ FGreater(c.h.m_gain, 10000)
         THEN Trace(c, Emit("streamStarted", FALSE, MsgStartGain))
         ELSE LET c1 == requestData([c EXCEPT !.h.m_state = "streaming"], "live") IN
              IF c1.h.hung THEN c1
              ELSE Trace([c1 EXCEPT !.h.timer = TRUE], Emit("streamStarted", TRUE, ""))
    ELSE Trace(c, Emit("streamStarted", FALSE, MsgStartState))

\* stopStream without m_readTimer->stop().
stopStream_TimerRuns(c) ==
    IF c.h.m_state = "streaming"
    THEN Trace([c EXCEPT !.h = [@ EXCEPT !.m_state = "initialized"]],
               Emit("streamStopped", TRUE, ""))
    ELSE Trace(c, Emit("streamStopped", FALSE, MsgStopState))

\* HidensSource::stopStream
stopStream(c) ==
    IF c.h.m_state = "streaming"
    THEN Trace([c EXCEPT !.h = [@ EXCEPT !.m_state = "initialized", !.timer = FALSE]],
               Emit("streamStopped", TRUE, ""))
    ELSE Trace(c, Emit("streamStopped", FALSE, MsgStopState))

\* m_settableParameters after HidensSource::HidensSource.
m_settableParameters == {"configuration", "configuration-file", "plug"}

\* The values a set("plug", value) request may carry, and QVariant::toUInt
\* of each: <<ok, value>>.  A negative int converts to its unsigned image.
PlugValues == {"0", "4", "5", "-1", "abc"}
VariantToUInt(value) ==
    CASE value = "0" -> <<TRUE, 0>>
      [] value = "4" -> <<TRUE, 4>>
      [] value = "5" -> <<TRUE, 5>>
      [] value = "-1" -> <<TRUE, UnsetU32>>
      [] OTHER -> <<FALSE, 0>>

\* The file names a set("configuration-file", value) request may carry.
FileValues == {"good.cmdraw.nrk2", "missing.cmdraw.nrk2", "config.txt"}
EndsWithNrk2(file) == file \in {"good.cmdraw.nrk2", "missing.cmdraw.nrk2"}
FileExists(file) == file \in {"good.cmdraw.nrk2", "config.txt"}

MsgCannotSet == "Cannot set parameter \"%1\" for HidensSource."
MsgPlugRange == "The plug value was not an integer or outside the allowed range [0, 4]."
MsgPlugNoChip == "The requested plug does not contain a chip."
MsgPlugBadChip == "The chip in the requested plug appears invalid."
MsgSetConfiguration == "Setting Hidens configurations directly from the command bytes is not yet supported."
MsgNeedPlug == "Must select a Neurolizer plug before setting configuration."
MsgFileFormat == "Configuration files must be in \"*.cmdraw.nrk2\" format"
MsgFileMissing == "Configuration file \"%1\" does not exist."
MsgUnsupported == "The requested parameter is not supported for HiDens sources."
MsgUploadFailed == "Could not send the configuration to the server."

\* The "plug" branch of set without the check of the chip id.
setPlug_AnyChip(c, value, w1, w2, rep, haveList) ==
    LET plug == VariantToUInt(value) IN
    IF ~plug[1] \/ UGreater(plug[2], 4)
    THEN Trace([c EXCEPT !.h.m_plug = UnsetU32], EmitP("setResponse", "plug", FALSE, MsgPlugRange))
    ELSE
    LET x1 == Exchange(c, SendA("select", plug[2]), w1) IN
    IF x1.c.h.hung THEN x1.c
    ELSE IF ~verifyReply(x1.reply)
    THEN Trace([x1.c EXCEPT !.h.m_plug = UnsetU32],
               EmitP("setResponse", "plug", FALSE, MsgPlugNoChip))
    ELSE
    LET x2 == Exchange(x1.c, Send("id"), w2)
        id == ToUInt(x2.reply)
    IN
    IF x2.c.h.hung THEN x2.c
    ELSE
    getConfigurationFromServer(
        Trace([x2.c EXCEPT !.h = [@ EXCEPT !.m_plug = plug[2], !.m_chipId = id[2]]],
              EmitP("setResponse", "plug", TRUE, "")),
        rep, haveList)

\* HidensSource::set, the "plug" branch: w1 and w2 are the server's answers
\* to 'select' and 'id', rep its channel report.
setPlug(c, value, w1, w2, rep, haveList) ==
    LET plug == VariantToUInt(value) IN
    IF ~plug[1] \/ UGreater(plug[2], 4)
    THEN Trace([c EXCEPT !.h.m_plug = UnsetU32], EmitP("setResponse", "plug", FALSE, MsgPlugRange))
    ELSE
    LET x1 == Exchange(c, SendA("select", plug[2]), w1) IN
    IF x1.c.h.hung THEN x1.c
    ELSE IF ~verifyReply(x1.reply)
    THEN Trace([x1.c EXCEPT !.h.m_plug = UnsetU32],
               EmitP("setResponse", "plug", FALSE, MsgPlugNoChip))
    ELSE
    LET x2 == Exchange(x1.c, Send("id"), w2)
        id == ToUInt(x2.reply)
    IN
    IF x2.c.h.hung THEN x2.c
    ELSE IF ~id[1] \/ id[2] = NoChipId
    THEN Trace(x2.c, EmitP("setResponse", "plug", FALSE, MsgPlugBadChip))
    ELSE
    getConfigurationFromServer(
        Trace([x2.c EXCEPT !.h = [@ EXCEPT !.m_plug = plug[2], !.m_chipId = id[2]]],
              EmitP("setResponse", "plug", TRUE, "")),
        rep, haveList)

\* HidensSource::set, the "configuration-file" branch.
setConfigurationFile(c, value) ==
    IF c.h.m_plug = UnsetU32
    THEN Trace(c, EmitP("setResponse", "configuration-file", FALSE, MsgNeedPlug))
    ELSE IF ~EndsWithNrk2(value)
    THEN Trace([c EXCEPT !.h.m_configurationFile = ""],
               EmitP("setResponse", "configuration-file", FALSE, MsgFileFormat))
    ELSE IF ~FileExists(value)
    THEN Trace([c EXCEPT !.h.m_configurationFile = ""],
               EmitP("setResponse", "configuration-file", FALSE, MsgFileMissing))
    ELSE [c EXCEPT !.h = [@ EXCEPT !.m_configurationFile = value,
                                   !.orphans = IF c.h.future.st = "running" THEN @ + 1 ELSE @,
                                   !.future = RunningFuture(value),
                                   !.watchHook = @ + 1]]

\* set without the check of the state.
set_AnyState(c, param, value, w1, w2, rep, haveList) ==
    IF param \notin m_settableParameters
    THEN Trace(c, EmitP("setResponse", param, FALSE, MsgCannotSet))
    ELSE IF param = "plug" THEN setPlug(c, value, w1, w2, rep, haveList)
    ELSE IF param = "configuration"
    THEN Trace(c, EmitP("setResponse", param, FALSE, MsgSetConfiguration))
    ELSE IF param = "configuration-file" THEN setConfigurationFile(c, value)
    ELSE Trace(c, EmitP("setResponse", param, FALSE, MsgUnsupported))

\* HidensSource::set
set(c, param, value, w1, w2, rep, haveList) ==
    IF param \notin m_settableParameters
    THEN Trace(c, EmitP("setResponse", param, FALSE, MsgCannotSet))
    ELSE IF c.h.m_state # "initialized"
    THEN Trace(c, EmitP("setResponse", param, FALSE, MsgSetState))
    ELSE IF param = "plug" THEN setPlug(c, value, w1, w2, rep, haveList)
    ELSE IF param = "configuration"
    THEN Trace(c, EmitP("setResponse", param, FALSE, MsgSetConfiguration))
    ELSE IF param = "configuration-file" THEN setConfigurationFile(c, value)
    ELSE Trace(c, EmitP("setResponse", param, FALSE, MsgUnsupported))

\* HidensSource::handleConfigSendResponse
handleConfigSendResponse(c0, rep1, rep2, haveList) ==
    LET c == [c0 EXCEPT !.h.watchHook = 0]
        result == c.h.future
    IN
    IF result.ok
    THEN LET c1 == getConfigurationFromServer(
                       [c EXCEPT !.h.m_configurationFile = result.file], rep1, haveList)
             c2 == getConfigurationFromServer(c1, rep2, haveList)
         IN  IF c2.h.hung THEN c2
             ELSE Trace(c2, EmitP("setResponse", "configuration", TRUE, ""))
    ELSE Trace([c EXCEPT !.h.m_configurationFile = ""],
               EmitP("setResponse", "configuration", FALSE, MsgUploadFailed))

\* m_configWatcher emits finished(): the slot runs once for every one of the n
\* connections that is still in place when its turn comes.
RECURSIVE emitFinished(_, _, _, _, _)
emitFinished(c, n, rep1, rep2, haveList) ==
    IF n = 0 \/ c.h.watchHook = 0 \/ c.h.hung THEN c
    ELSE emitFinished(handleConfigSendResponse(c, rep1, rep2, haveList), n - 1,
                      rep1, rep2, haveList)

\* HidensSource::handleDisconnect
handleDisconnect(c) == handleError(c, MsgDisconnected)

(***************************************************************************)
(* Streaming.                                                              *)
(***************************************************************************)
\* m_bytesPerEmitFrame (26200 in the program).
BytesPerFrame == 2
m_bytesPerEmitFrame == BytesPerFrame

MsgReadError == "Error reading data from HiDens server!"

RECURSIVE Frames(_)
Frames(n) == IF n = 0 THEN << >> ELSE <<Emit("dataAvailable", TRUE, "")>> \o Frames(n - 1)

\* HidensSource::recvDataFrame with rx bytes available; readFails says
\* whether QTcpSocket::read returns -1.  Yields the context and the bytes
\* left unread.
recvDataFrame(c, rx, readFails) ==
    IF rx < m_bytesPerEmitFrame THEN [c |-> c, rx |-> rx]
    ELSE IF readFails THEN [c |-> Trace(c, Emit("error", FALSE, MsgReadError)), rx |-> rx]
    ELSE [c |-> [c EXCEPT !.out = @ \o Frames(rx \div m_bytesPerEmitFrame)],
          rx |-> rx % m_bytesPerEmitFrame]

\* The callback of m_readTimer: recvDataFrame(); requestData("stream").
readTimerTimeout(c, rx, readFails) ==
    LET r == recvDataFrame(c, rx, readFails) IN
    [c |-> requestData(r.c, "stream"), rx |-> r.rx]

(***************************************************************************)
(* The actions of a HidensSource.                                          *)
(***************************************************************************)

Commit(c, o) ==
    /\ hid' = c.h
    /\ out' = c.out
    /\ op' = o

\* What the server may answer to the commands of the handshake; an answer
\* is drawn only for a command the handshake gets to send.
VerifyAnswers == TextReplies \cup {NullReply}
SrAnswers == {"20000", "abc", NullReply}
GainAnswers == {"1", "0", "abc", NullReply}
AdcAnswers(g) ==
    IF g = "0" THEN {"256", "0", "abc", NullReply}
    ELSE IF ToFloat(g)[1] THEN {"256", "-256"}
    ELSE {NullReply}
After(prev, answers) == IF verifyReply(prev) THEN answers ELSE {NullReply}
NoAnswers == <<NullReply, NullReply, NullReply, NullReply, NullReply, NullReply>>

\* What the server may answer to 'select' and 'id', and to 'ch 0-125'.
SelectAnswers == TextReplies \cup {NullReply}
IdAnswers == {"1234", "65535", "abc", NullReply}
ReportAnswers == SessionReports \cup {TimedOutReport, ErrorReport}

\* Whether the build holds the resource ':/electrode-list.txt'.
HaveElectrodeList == TRUE

\* HidensSource::initialize: in the invalid state the handlers are hooked
\* and connectToHost is called.  On a socket that is already connecting,
\* connectToHost raises the error signal at once, which runs
\* handleConnectionMade(false).
initialize(c, t) ==
    IF c.h.m_state = "invalid"
    THEN IF c.h.sock = "unconnected"
         THEN [c EXCEPT !.h = [@ EXCEPT !.initHooks = TRUE, !.sock = "connecting",
                                        !.pendingClose = FALSE]]
         ELSE handleConnectionMade([c EXCEPT !.h.initHooks = TRUE], FALSE, NoAnswers, t)
    ELSE Trace(c, Emit("initialized", FALSE, MsgInitState))

\* What a handler's reads leave of rx buffered bytes of frames; tr is the
\* handler's trace and rep what 'ch 0-125' was answered with.  readLine
\* (getHidensReply) and readAll (getConfigurationFromServer) hand out the
\* oldest bytes of the socket's buffer first: a line read while frame bytes
\* are buffered takes at least one of them, readAll takes them all.
Unread(rx, tr, rep) ==
    IF ~rep.null /\ \E i \in 1 .. Len(tr) : tr[i].k = "send" /\ tr[i].n = "ch 0-125"
    THEN {0}
    ELSE IF rx = 0 \/ ~\E i \in 1 .. Len(tr) : tr[i].k = "recv" THEN {rx}
    ELSE 0 .. (rx - 1)

\* Whether the handler left the server pushing frames: 'live' and 'stream'
\* switch it into frame-push mode, and a closed connection ends it.
Pushing(c) ==
    /\ c.h.sock = "connected"
    /\ \/ net.pushing
       \/ \E i \in 1 .. Len(c.out) :
             c.out[i].k = "send" /\ c.out[i].n \in {"live", "stream"}

Initialize ==
    /\ ~hid.hung
    /\ Commit(initialize(Ctx(hid), now), "initialize")
    /\ UNCHANGED <<net, now, base, bop, bout, codec, fpga, acq, fsrc>>

\* The socket reports that the connection is made.
ConnectionMade ==
    /\ ~hid.hung
    /\ hid.sock = "connecting"
    /\ \E a1 \in VerifyAnswers : \E a2 \in After(a1, VerifyAnswers) :
       \E a3 \in After(a2, VerifyAnswers) : \E a4 \in After(a3, SrAnswers) :
       \E a5 \in (IF ToFloat(a4)[1] THEN GainAnswers ELSE {NullReply}) :
       \E a6 \in AdcAnswers(a5) :
          LET ws == <<a1, a2, a3, a4, a5, a6>>
              c0 == Ctx([hid EXCEPT !.sock = "connected"])
              c1 == IF hid.initHooks THEN handleConnectionMade(c0, TRUE, ws, now) ELSE c0
              c2 == IF hid.pendingClose
                    THEN [c1 EXCEPT !.h = [@ EXCEPT !.sock = "unconnected",
                                                   !.pendingClose = FALSE]]
                    ELSE c1
          IN  Commit(c2, "connected")
    /\ net' = [rx |-> 0, pushing |-> FALSE]
    /\ UNCHANGED <<now, base, bop, bout, codec, fpga, acq, fsrc>>

\* The socket reports that the connection could not be made.
ConnectionFailed ==
    /\ ~hid.hung
    /\ hid.sock = "connecting"
    /\ LET c0 == Ctx([hid EXCEPT !.sock = "unconnected", !.pendingClose = FALSE])
           c1 == IF hid.initHooks THEN handleConnectionMade(c0, FALSE, NoAnswers, now) ELSE c0
       IN  Commit(c1, "socketError")
    /\ UNCHANGED <<net, now, base, bop, bout, codec, fpga, acq, fsrc>>

\* The server closes the connection.
PeerClose ==
    /\ ~hid.hung
    /\ hid.sock = "connected"
    /\ LET c0 == Ctx([hid EXCEPT !.sock = "unconnected"])
           c1 == IF hid.discHook THEN handleDisconnect(c0) ELSE c0
       IN  Commit(c1, "disconnected")
    /\ net' = [net EXCEPT !.pushing = FALSE]
    /\ UNCHANGED <<now, base, bop, bout, codec, fpga, acq, fsrc>>

StartStream ==
    /\ ~hid.hung
    /\ LET c == startStream(Ctx(hid)) IN
          /\ Commit(c, "startStream")
          /\ net' = [net EXCEPT !.pushing = Pushing(c)]
    /\ UNCHANGED <<now, base, bop, bout, codec, fpga, acq, fsrc>>

StopStream ==
    /\ ~hid.hung
    /\ Commit(stopStream(Ctx(hid)), "stopStream")
    /\ UNCHANGED <<net, now, base, bop, bout, codec, fpga, acq, fsrc>>

SetParameters == m_settableParameters \cup {"gain"}

\* set("plug", value): the answers are drawn only as far as the exchange gets.
SetPlug ==
    /\ ~hid.hung
    /\ \E value \in PlugValues :
       \E w1 \in (IF hid.m_state = "initialized" /\ VariantToUInt(value)[1]
                      /\ ~UGreater(VariantToUInt(value)[2], 4)
                   THEN SelectAnswers ELSE {NullReply}) :
       \E w2 \in After(w1, IdAnswers) :
       \E rep \in (IF ToUInt(w2)[1] /\ ToUInt(w2)[2] # NoChipId
                   THEN ReportAnswers ELSE {TimedOutReport}) :
          LET c == set(Ctx(hid), "plug", value, w1, w2, rep, HaveElectrodeList) IN
             /\ Commit(c, "set")
             /\ \E left \in Unread(net.rx, c.out, rep) :
                   net' = [rx |-> left, pushing |-> Pushing(c)]
    /\ UNCHANGED <<now, base, bop, bout, codec, fpga, acq, fsrc>>

\* set("configuration-file", value)
SetConfigurationFile ==
    /\ ~hid.hung
    /\ \E value \in FileValues :
          LET c == set(Ctx(hid), "configuration-file", value,
                       NullReply, NullReply, TimedOutReport, HaveElectrodeList)
          IN  /\ c.h.watchHook <= MaxUploads
              /\ c.h.orphans < MaxUploads
              /\ Commit(c, "set")
              /\ net' = [net EXCEPT !.pushing = Pushing(c)]
    /\ UNCHANGED <<now, base, bop, bout, codec, fpga, acq, fsrc>>

\* set of any other parameter name
SetOther ==
    /\ ~hid.hung
    /\ \E param \in SetParameters \ {"plug", "configuration-file"} :
          LET c == set(Ctx(hid), param, "", NullReply, NullReply, TimedOutReport,
                       HaveElectrodeList)
          IN  /\ Commit(c, "set")
              /\ net' = [net EXCEPT !.pushing = Pushing(c)]
    /\ UNCHANGED <<now, base, bop, bout, codec, fpga, acq, fsrc>>

\* The worker running sendConfigToFpga returns its result.
SendConfigToFpga ==
    /\ hid.future.st = "running"
    /\ \E ok \in BOOLEAN :
          hid' = [hid EXCEPT !.future = FinishedFuture(ok, hid.future.file)]
    /\ UNCHANGED <<net, op, out, now, base, bop, bout, codec, fpga, acq, fsrc>>

\* A worker returns the result of an upload that m_configFuture no longer
\* refers to: nothing watches it.
SendConfigToFpgaUnwatched ==
    /\ hid.orphans > 0
    /\ hid' = [hid EXCEPT !.orphans = @ - 1]
    /\ UNCHANGED <<net, op, out, now, base, bop, bout, codec, fpga, acq, fsrc>>

\* The watcher delivers finished() to the source's thread.
HandleConfigSendResponse ==
    /\ ~hid.hung
    /\ hid.future.st = "finished"
    /\ \E rep1 \in (IF hid.future.ok /\ hid.sock = "connected"
                     THEN ReportAnswers ELSE {TimedOutReport}) :
       \E rep2 \in (IF rep1.null \/ rep1.err THEN {TimedOutReport} ELSE ReportAnswers) :
          LET c == emitFinished(Ctx([hid EXCEPT !.future = ReportedFuture(@)]),
                                hid.watchHook, rep1, rep2, HaveElectrodeList)
          IN /\ Commit(c, "uploadFinished")
             /\ \E left \in Unread(net.rx, c.out, rep1) :
                   net' = [rx |-> left, pushing |-> Pushing(c)]
    /\ UNCHANGED <<now, base, bop, bout, codec, fpga, acq, fsrc>>

\* m_readTimer fires.
Tick ==
    /\ ~hid.hung
    /\ hid.timer
    /\ \E readFails \in BOOLEAN :
          LET r == readTimerTimeout(Ctx(hid), net.rx, readFails) IN
             /\ Commit(r.c, "tick")
             /\ net' = [rx |-> r.rx, pushing |-> Pushing(r.c)]
    /\ UNCHANGED <<now, base, bop, bout, codec, fpga, acq, fsrc>>

\* Bytes of streamed frames arrive.
ServerPush ==
    /\ net.pushing
    /\ hid.sock = "connected"
    /\ \E k \in 1 .. (MaxRx - net.rx) :
          net' = [net EXCEPT !.rx = @ + k]
    /\ UNCHANGED <<hid, op, out, now, base, bop, bout, codec, fpga, acq, fsrc>>

\* One more turn of askHidens' write loop on the dead socket.
AskHidensSpin ==
    /\ hid.hung
    /\ LET c == askHidens(Ctx([hid EXCEPT !.hung = FALSE]), Send("")) IN
          Commit(c, op)
    /\ UNCHANGED <<net, now, base, bop, bout, codec, fpga, acq, fsrc>>

\* Time passes.
Tock ==
    /\ now < MaxClock
    /\ now' = now + 1
    /\ UNCHANGED <<hid, net, op, out, base, bop, bout, codec, fpga, acq, fsrc>>

(***************************************************************************)
(* The worker thread: HidensSource::sendConfigToFpga, step by step.       *)
(***************************************************************************)
\* The longest configuration file, in bytes.
MaxFileSize == 4

NoUpload ==
    [pc |-> "idle", file |-> "", exists |-> FALSE, size |-> 0, connected |-> FALSE,
     nwritten |-> 0, writes |-> 0, failed |-> FALSE, success |-> FALSE,
     result |-> <<FALSE, "">>]

\* return {success, file}
fpgaReturn(u, success) == [u EXCEPT !.pc = "done", !.result = <<success, u.file>>]

\* One turn of the write loop without the break on a failed write.
fpgaWrite_NoFailure(u, tmp) ==
    IF tmp = -1
    THEN [u EXCEPT !.failed = TRUE, !.pc = "flush"]
    ELSE [u EXCEPT !.nwritten = @ + tmp, !.writes = @ + 1,
                   !.pc = IF u.nwritten + tmp < u.size THEN "write" ELSE "flush"]

\* One turn of the write loop: tmp is what QTcpSocket::write returns.
fpgaWrite(u, tmp) ==
    IF tmp = -1
    THEN [u EXCEPT !.success = FALSE, !.failed = TRUE, !.pc = "flush"]
    ELSE [u EXCEPT !.nwritten = @ + tmp, !.writes = @ + 1,
                   !.pc = IF u.nwritten + tmp < u.size THEN "write" ELSE "flush"]

\* QtConcurrent::run starts the worker on a file that exists or not.
UploadInit ==
    \E file \in {"a.cfg", "b.cfg"} : \E exists \in BOOLEAN :
    \E size \in 0 .. MaxFileSize :
       /\ ~exists => size = 0
       /\ fpga = [NoUpload EXCEPT !.pc = "connect", !.file = file,
                                   !.exists = exists, !.size = size]

\* fpga->connectToHost; fpga->waitForConnected(10000)
WaitForConnected ==
    /\ fpga.pc = "connect"
    /\ \E ok \in BOOLEAN :
          fpga' = IF ok THEN [fpga EXCEPT !.pc = "open", !.connected = TRUE]
                  ELSE fpgaReturn(fpga, FALSE)
    /\ UNCHANGED <<hid, net, op, out, now, base, bop, bout, codec, acq, fsrc>>

\* configFile.exists(); open; readAll; close
ReadConfigFile ==
    /\ fpga.pc = "open"
    /\ fpga' = IF ~fpga.exists THEN fpgaReturn(fpga, FALSE)
               ELSE [fpga EXCEPT !.pc = "write", !.success = TRUE]
    /\ UNCHANGED <<hid, net, op, out, now, base, bop, bout, codec, acq, fsrc>>

\* One turn of the do-while loop.  A buffered socket takes what it is
\* given; the model also lets it take less, but at least one byte of a
\* write that is not empty.
WriteConfigData ==
    /\ fpga.pc = "write"
    /\ \E tmp \in {-1} \cup (IF fpga.nwritten = fpga.size THEN {0}
                              ELSE 1 .. (fpga.size - fpga.nwritten)) :
          fpga' = fpgaWrite(fpga, tmp)
    /\ UNCHANGED <<hid, net, op, out, now, base, bop, bout, codec, acq, fsrc>>

\* fpga->waitForBytesWritten(10000); return {success, file}
FinishUpload ==
    /\ fpga.pc = "flush"
    /\ fpga' = fpgaReturn(fpga, fpga.success)
    /\ UNCHANGED <<hid, net, op, out, now, base, bop, bout, codec, acq, fsrc>>

(***************************************************************************)
(* The bytes of a stream: HidensSource::recvDataFrame on m_acqBuffer.      *)
(***************************************************************************)
\* The columns of m_acqBuffer: samples per read interval (200 in the
\* program), and with them the bytes of one emitted frame.
AcqSamples == 2
AcqBytes == m_hidensFrameSize * AcqSamples

\* The longest stream the server sends, in emitted frames.
MaxFrames == 2

\* The conversion of a value to uchar.
ToUChar(v) == v % 256

\* m_acqBuffer after read() has stored the bytes through memptr(): the
\* matrix is column-major, so each column is one frame of the device.
AcqBuffer(bytes) ==
    [r \in 0 .. (m_hidensFrameSize - 1) |->
        [col \in 0 .. (AcqSamples - 1) |-> bytes[col * m_hidensFrameSize + r + 1]]]

\* x = (x & 0x08) ? 255 : 0
Photodiode(x) == IF (x \div 8) % 2 = 1 THEN 255 ELSE 0

\* m_acqBuffer.row(m_hidensFrameSize - 1).for_each(...)
ConvertPhotodiode(m) ==
    [m EXCEPT ![m_hidensFrameSize - 1] = [col \in DOMAIN @ |-> Photodiode(@[col])]]

\* arma::conv_to<Samples>::from(m.rows(idx).t() * static_cast<qint16>(-1)):
\* the rows idx, transposed, times the scalar converted to the element type
\* of the matrix (uchar), each product stored as uchar; then widened.
ToSamples(m, idx) ==
    [n_rows |-> AcqSamples, n_cols |-> Len(idx),
     at |-> [i \in 1 .. AcqSamples |->
               [j \in 1 .. Len(idx) |-> ToUChar(m[idx[j]][i - 1] * ToUChar(0 - 1))]]]

NoStream ==
    [seed |-> 0, idx |-> << >>, electrodes |-> << >>, sent |-> 0, sock |-> << >>,
     raw |-> << >>, frames |-> << >>,
     tick |-> [b |-> 0, n |-> 0, left |-> 0, err |-> FALSE]]

\* The loop of recvDataFrame that reads one frame only.
recvFrames_Once(a, readFails) ==
    IF Len(a.sock) < AcqBytes THEN a
    ELSE IF readFails THEN [a EXCEPT !.tick.err = TRUE]
    ELSE LET bytes == SubSeq(a.sock, 1, AcqBytes) IN
         [a EXCEPT !.sock = SubSeq(@, AcqBytes + 1, Len(@)),
                   !.raw = Append(@, bytes),
                   !.frames = Append(@, ToSamples(ConvertPhotodiode(AcqBuffer(bytes)),
                                                  a.idx))]

\* The loop of recvDataFrame: while a frame is available, read it, convert
\* the photodiode row and emit the connected rows.
RECURSIVE recvFrames(_, _)
recvFrames(a, readFails) ==
    IF Len(a.sock) < AcqBytes THEN a
    ELSE IF readFails THEN [a EXCEPT !.tick.err = TRUE]
    ELSE LET bytes == SubSeq(a.sock, 1, AcqBytes) IN
         recvFrames([a EXCEPT !.sock = SubSeq(@, AcqBytes + 1, Len(@)),
                              !.raw = Append(@, bytes),
                              !.frames = Append(@, ToSamples(
                                            ConvertPhotodiode(AcqBuffer(bytes)), a.idx))],
                    readFails)

\* The channel reports a stream runs under: electrode 0 on the first
\* channel, or the second channel not connected.
StreamReports ==
    { [i \in 1 .. m_ntotalChannels |-> IF i = 1 THEN "0 " ELSE "2"],
      [i \in 1 .. m_ntotalChannels |-> IF i = 2 THEN "" ELSE "2"] }

\* A stream starts: the server's bytes count up from seed, and
\* getConfigurationFromServer has parsed a report.
StreamInit ==
    \E seed \in 0 .. 255 : \E lines \in StreamReports :
       acq = [NoStream EXCEPT
                 !.seed = seed,
                 !.electrodes = ParseElectrodeIndices(lines),
                 !.idx = FindPositive(ParseElectrodeIndices(lines), 0)]

\* The sizes in which bytes arrive: less than a frame of the device, or a
\* whole emitted frame.
PushSizes == {m_hidensFrameSize - 1, AcqBytes}

\* Bytes of the stream arrive at the socket.
StreamPush ==
    /\ \E k \in PushSizes :
          /\ acq.sent + k <= MaxFrames * AcqBytes + m_hidensFrameSize
          /\ acq' = [acq EXCEPT
                        !.sent = @ + k,
                        !.sock = @ \o [i \in 1 .. k |-> ToUChar(acq.seed + acq.sent + i - 1)]]
    /\ UNCHANGED <<hid, net, op, out, now, base, bop, bout, codec, fpga, fsrc>>

\* The read timer fires: recvDataFrame.
StreamTick ==
    /\ \E readFails \in BOOLEAN :
          LET a == recvFrames([acq EXCEPT !.tick = [b |-> Len(acq.sock), n |-> 0,
                                                    left |-> 0, err |-> FALSE]],
                              readFails)
          IN  acq' = [a EXCEPT !.tick.n = Len(a.frames) - Len(acq.frames),
                               !.tick.left = Len(a.sock)]
    /\ UNCHANGED <<hid, net, op, out, now, base, bop, bout, codec, fpga, fsrc>>

(***************************************************************************)
(* A FileSource (file-source.cc).                                          *)
(***************************************************************************)
\* The longest data file, in samples, and the largest m_frameSize.
MaxFileSamples == 5
MaxFrameSize == 2

MsgFileInitState == "Can only initialize from the 'invalid' state."
MsgFileStartState == "Can only start stream from 'initialized' state."
MsgFileStopState == "Can only stop stream from 'streaming' state."
MsgEndOfFile == "Reached end of source data file."

\* A FileSource after construction, on a file of nsamples samples whose
\* sample rate gives frames of frameSize samples; read is the sample range
\* the last tick asked the file for.
NewFileSource(st, nsamples, frameSize) ==
    [m_state |-> st, m_currentSample |-> 0, timer |-> FALSE,
     nsamples |-> nsamples, m_frameSize |-> frameSize,
     read |-> <<0, 0>>, op |-> "construct", out |-> << >>]

NoFileSource == NewFileSource(CtorState, 0, 1)

\* readDataFromFile without the test for the end of the file.
readDataFromFile_NoEnd(f) ==
    [f EXCEPT !.read = <<f.m_currentSample, f.m_currentSample + f.m_frameSize>>,
              !.m_currentSample = @ + f.m_frameSize,
              !.op = "tick",
              !.out = <<Emit("dataAvailable", TRUE, "")>>]

\* FileSource::readDataFromFile
readDataFromFile(f) ==
    IF f.m_currentSample >= f.nsamples
    THEN [f EXCEPT !.m_currentSample = 0, !.timer = FALSE, !.m_state = "initialized",
                   !.op = "tick",
                   !.out = <<Emit("streamStopped", TRUE, MsgEndOfFile)>>]
    ELSE [f EXCEPT !.read = <<f.m_currentSample, f.m_currentSample + f.m_frameSize>>,
                   !.m_currentSample = @ + f.m_frameSize,
                   !.op = "tick",
                   !.out = <<Emit("dataAvailable", TRUE, "")>>]

\* A FileSource is constructed on a data file.
FileSourceInit ==
    \E st \in {CtorState, LifecycleStartState} :
    \E nsamples \in 0 .. MaxFileSamples : \E frameSize \in 1 .. MaxFrameSize :
       fsrc = NewFileSource(st, nsamples, frameSize)

\* FileSource::initialize
FileInitialize ==
    /\ fsrc' = IF fsrc.m_state = "invalid"
               THEN [fsrc EXCEPT !.m_state = "initialized", !.op = "initialize",
                                 !.out = <<Emit("initialized", TRUE, "")>>]
               ELSE [fsrc EXCEPT !.op = "initialize",
                                 !.out = <<Emit("initialized", FALSE, MsgFileInitState)>>]
    /\ UNCHANGED <<hid, net, op, out, now, base, bop, bout, codec, fpga, acq>>

\* FileSource::startStream
FileStartStream ==
    /\ fsrc' = IF fsrc.m_state = "initialized"
               THEN [fsrc EXCEPT !.m_state = "streaming", !.timer = TRUE,
                                 !.op = "startStream",
                                 !.out = <<Emit("streamStarted", TRUE, "")>>]
               ELSE [fsrc EXCEPT !.op = "startStream",
                                 !.out = <<Emit("streamStarted", FALSE, MsgFileStartState)>>]
    /\ UNCHANGED <<hid, net, op, out, now, base, bop, bout, codec, fpga, acq>>

\* FileSource::stopStream
FileStopStream ==
    /\ fsrc' = IF fsrc.m_state = "streaming"
               THEN [fsrc EXCEPT !.timer = FALSE, !.m_state = "initialized",
                                 !.m_currentSample = 0, !.op = "stopStream",
                                 !.out = <<Emit("streamStopped", TRUE, "")>>]
               ELSE [fsrc EXCEPT !.op = "stopStream",
                                 !.out = <<Emit("streamStopped", FALSE, MsgFileStopState)>>]
    /\ UNCHANGED <<hid, net, op, out, now, base, bop, bout, codec, fpga, acq>>

\* m_readTimer of the FileSource fires.
FileTick ==
    /\ fsrc.timer
    /\ fsrc' = readDataFromFile(fsrc)
    /\ UNCHANGED <<hid, net, op, out, now, base, bop, bout, codec, fpga, acq>>

(***************************************************************************)
(* A plain BaseSource (include/base-source.h).                             *)
(***************************************************************************)
\* checkStateTransition without the comparison of the state with `from`.
checkStateTransition_AnyFrom(o, from, to) ==
    IF o.m_state = "disconnected" THEN to = "connected"
    ELSE IF o.m_state = "connected" THEN to = "disconnected" \/ to = "streaming"
    ELSE IF o.m_state = "streaming" THEN to = "connected"
    ELSE FALSE

\* BaseSource::checkStateTransition
checkStateTransition(o, from, to) ==
    IF o.m_state # from THEN FALSE
    ELSE IF o.m_state = "disconnected" THEN to = "connected"
    ELSE IF o.m_state = "connected" THEN to = "disconnected" \/ to = "streaming"
    ELSE IF o.m_state = "streaming" THEN to = "connected"
    ELSE FALSE

\* BaseSource::connect
BaseConnect ==
    /\ LET success == checkStateTransition(base, "disconnected", "connected") IN
          /\ base' = IF success
                     THEN [base EXCEPT !.m_connectTime = now, !.m_state = "connected"]
                     ELSE base
          /\ bout' = Emit("connected", success,
                          IF success THEN "" ELSE "Can only connect from 'disconnected' state.")
    /\ bop' = "connect"
    /\ UNCHANGED <<hid, net, op, out, now, codec, fpga, acq, fsrc>>

\* BaseSource::disconnect
BaseDisconnect ==
    /\ LET success == checkStateTransition(base, "connected", "disconnected") IN
          /\ base' = IF success
                     THEN [base EXCEPT !.m_connectTime = NullTime, !.m_state = "disconnected"]
                     ELSE base
          /\ bout' = Emit("disconnected", success,
                          IF success THEN "" ELSE "Can only disconnect from 'connected' state.")
    /\ bop' = "disconnect"
    /\ UNCHANGED <<hid, net, op, out, now, codec, fpga, acq, fsrc>>

\* BaseSource::startStream
BaseStartStream ==
    /\ LET success == checkStateTransition(base, "connected", "streaming") IN
          /\ base' = IF success THEN [base EXCEPT !.m_state = "streaming"] ELSE base
          /\ bout' = Emit("streamStarted", success,
                          IF success THEN "" ELSE "Can only start stream from 'connected' state.")
    /\ bop' = "startStream"
    /\ UNCHANGED <<hid, net, op, out, now, codec, fpga, acq, fsrc>>

\* BaseSource::stopStream
BaseStopStream ==
    /\ LET success == checkStateTransition(base, "streaming", "connected") IN
          /\ base' = IF success THEN [base EXCEPT !.m_state = "connected"] ELSE base
          /\ bout' = Emit("streamStopped", success,
                          IF success THEN "" ELSE "Can only stop stream from 'streaming' state.")
    /\ bop' = "stopStream"
    /\ UNCHANGED <<hid, net, op, out, now, codec, fpga, acq, fsrc>>

\* m_gettableParameters after BaseSource::BaseSource.
m_gettableParameters ==
    {"connect-time", "start-time", "state", "nchannels", "has-analog-output", "gain",
     "adc-range", "read-interval", "sample-rate", "source-type", "device-type"}

\* BaseSource::set
BaseSet ==
    /\ \E param \in {"plug", "trigger"} :
          bout' = EmitP("setResponse", param, FALSE, "Base class implementation!")
    /\ bop' = "set"
    /\ UNCHANGED <<hid, net, op, out, now, base, codec, fpga, acq, fsrc>>

\* BaseSource::get of the state, of the source type and of a parameter that
\* is not gettable.
BaseGet ==
    /\ \E param \in {"state", "source-type", "plug"} :
          bout' = IF param \notin m_gettableParameters
                  THEN EmitP("getResponse", param, FALSE, "The parameter is not valid for source")
                  ELSE IF param = "state" THEN EmitP("getResponse", param, TRUE, base.m_state)
                  ELSE EmitP("getResponse", param, TRUE, "none")
    /\ bop' = "get"
    /\ UNCHANGED <<hid, net, op, out, now, base, codec, fpga, acq, fsrc>>

(***************************************************************************)
(* Reading the parameters: get and requestStatus, which HidensSource takes *)
(* from BaseSource, and packStatus, which it extends.                      *)
(***************************************************************************)
\* The QVariant a reply carries, by the kind of its value.
VText(s) == [t |-> "text", v |-> s]
VNumber(n) == [t |-> "number", v |-> n]
VBool(b) == [t |-> "bool", v |-> b]
VFloat(f) == [t |-> "float", v |-> f]
VFloatVector(s) == [t |-> "floats", v |-> s]
VConfiguration(c) == [t |-> "configuration", v |-> c]

\* QDateTime::toString: the empty string for the null time.
DateToString(t) == IF t = NullTime THEN "" ELSE ToString(t)

\* What HidensSource::HidensSource passes to BaseSource::BaseSource.
m_sourceType == "hidens"
m_deviceType == "hidens"

\* m_gettableParameters after HidensSource::HidensSource.
HidensGettableParameters ==
    m_gettableParameters \cup {"configuration", "configuration-file", "plug"}

MsgNotGettable == "The parameter \"%1\" is not valid for source %2"
MsgNoParameter == "No parameter named \"%1\" exists for the %2 device"

\* BaseSource::get on the object o whose gettable parameters are gettable:
\* the getResponse it emits.  It assigns to no member.
get(o, gettable, param) ==
    LET reply(data) == [p |-> param, valid |-> TRUE, data |-> data] IN
    IF param \notin gettable
    THEN [p |-> param, valid |-> FALSE, data |-> VText(MsgNotGettable)]
    ELSE CASE param = "trigger" -> reply(VText(o.m_trigger))
           [] param = "connect-time" -> reply(VText(DateToString(o.m_connectTime)))
           [] param = "start-time" -> reply(VText(DateToString(o.m_startTime)))
           [] param = "state" -> reply(VText(o.m_state))
           [] param = "nchannels" -> reply(VNumber(o.m_nchannels))
           [] param = "analog-output" -> reply(VFloatVector(o.m_analogOutput))
           [] param = "has-analog-output" -> reply(VBool(Len(o.m_analogOutput) > 0))
           [] param = "gain" -> reply(VFloat(o.m_gain))
           [] param = "adc-range" -> reply(VFloat(o.m_adcRange))
           [] param = "plug" -> reply(VNumber(o.m_plug))
           [] param = "chip-id" -> reply(VNumber(o.m_chipId))
           [] param = "read-interval" -> reply(VNumber(m_readInterval))
           [] param = "sample-rate" -> reply(VFloat(o.m_sampleRate))
           [] param = "source-type" -> reply(VText(m_sourceType))
           [] param = "device-type" -> reply(VText(m_deviceType))
           [] param = "configuration" -> reply(VConfiguration(o.m_configuration))
           [] OTHER -> [p |-> param, valid |-> FALSE, data |-> VText(MsgNoParameter)]

\* BaseSource::packStatus
BasePackStatus(o) ==
    "state" :> VText(o.m_state)
    @@ "source-type" :> VText(m_sourceType)
    @@ "device-type" :> VText(m_deviceType)
    @@ "connect-time" :> VText(DateToString(o.m_connectTime))
    @@ "start-time" :> VText(DateToString(o.m_startTime))
    @@ "read-interval" :> VNumber(m_readInterval)
    @@ "sample-rate" :> VFloat(o.m_sampleRate)
    @@ "gain" :> VFloat(o.m_gain)
    @@ "adc-range" :> VFloat(o.m_adcRange)
    @@ "nchannels" :> VNumber(o.m_nchannels)
    @@ "has-analog-output" :> VBool(FALSE)

\* HidensSource::packStatus; m_sourceLocation is the address the source was
\* made with.
m_sourceLocation == "11.0.0.1"
packStatus(o) ==
    "location" :> VText(m_sourceLocation)
    @@ "configuration" :> VConfiguration(o.m_configuration)
    @@ "configuration-file" :> VText(o.m_configurationFile)
    @@ "plug" :> VNumber(o.m_plug)
    @@ BasePackStatus(o)

\* BaseSource::requestStatus: the status signal it emits.
requestStatus(o) == [n |-> "status", map |-> packStatus(o)]

(***************************************************************************)
(* The wire format: datasource::serialize and datasource::deserialize.     *)
(***************************************************************************)
\* A QVariant holding a QByteArray, and the invalid QVariant.
VBytes(b) == [t |-> "bytes", v |-> b]
VInvalid == [t |-> "invalid", v |-> 0]

\* std::memcpy of a quint32 and of a quint16 on a little-endian machine, and
\* back.  A quint32 is held as its two's-complement image.
Bytes32(x) ==
    << x % 256, (x \div 256) % 256, (x \div 65536) % 256, (x \div 16777216) % 256 >>
FromBytes32(b) ==
    b[1] + 256 * b[2] + 65536 * b[3] + 16777216 * (IF b[4] >= 128 THEN b[4] - 256 ELSE b[4])
Bytes16(x) == << x % 256, (x \div 256) % 256 >>
FromBytes16(b) == b[1] + 256 * b[2]

\* QString::toUtf8 of a string given by its code points (below 2048).
RECURSIVE Utf8(_)
Utf8(s) ==
    IF s = << >> THEN << >>
    ELSE (IF Head(s) < 128 THEN << Head(s) >>
          ELSE << 192 + (Head(s) \div 64), 128 + (Head(s) % 64) >>)
         \o Utf8(Tail(s))

\* The floats put on the wire and their IEEE-754 single-precision bits.
FloatValues == {Num(0), Num(1), Num(-256), Num(20000), NaN}
FloatBits(f) ==
    CASE f = Num(0) -> 0
      [] f = Num(1) -> 1065353216
      [] f = Num(-256) -> -1015021568
      [] f = Num(20000) -> 1184645120
      [] f = NaN -> 2143289344
OtherFloat == [k |-> "other", v |-> 0]
FloatOfBits(bits) ==
    IF \E f \in FloatValues : FloatBits(f) = bits
    THEN CHOOSE f \in FloatValues : FloatBits(f) = bits
    ELSE OtherFloat

\* The doubles put on the wire and the bytes of their IEEE-754 double
\* precision bits.
DoubleValues == {Num(0), Num(1), Num(-2)}
DoubleBytes(d) ==
    CASE d = Num(0) -> <<0, 0, 0, 0, 0, 0, 0, 0>>
      [] d = Num(1) -> <<0, 0, 0, 0, 0, 0, 240, 63>>
      [] d = Num(-2) -> <<0, 0, 0, 0, 0, 0, 0, 192>>
DoubleOfBytes(b) ==
    IF \E d \in DoubleValues : DoubleBytes(d) = b
    THEN CHOOSE d \in DoubleValues : DoubleBytes(d) = b
    ELSE OtherFloat

\* sizeof(double) and sizeof(Electrode): the members of an Electrode lie at
\* the offsets 0, 4, 8, 12, 16 and 18, with padding at 10-11 and at 19.
SizeofDouble == 8
SizeofElectrode == 20

\* The bytes of an Electrode in memory; pad is what its padding holds.
ElectrodeBytes(el, pad) ==
    Bytes32(el.index) \o Bytes32(el.xpos) \o Bytes16(el.x) \o <<pad, pad>>
        \o Bytes32(el.ypos) \o Bytes16(el.y) \o <<el.label, pad>>
ElectrodeOfBytes(b) ==
    [index |-> FromBytes32(SubSeq(b, 1, 4)), xpos |-> FromBytes32(SubSeq(b, 5, 8)),
     x |-> FromBytes16(SubSeq(b, 9, 10)), ypos |-> FromBytes32(SubSeq(b, 13, 16)),
     y |-> FromBytes16(SubSeq(b, 17, 18)), label |-> b[19]]

\* The bytes of the elements of a vector, one after the other.
RECURSIVE RawData(_)
RawData(chunks) ==
    IF chunks = << >> THEN << >> ELSE Head(chunks) \o RawData(Tail(chunks))

\* The parameter names that have a wire representation, by the branch of
\* serialize that takes them.
TextParameters ==
    {"trigger", "connect-time", "start-time", "source-type", "device-type", "state",
     "location", "configuration-file"}
UIntParameters == {"nchannels", "plug", "chip-id", "read-interval"}
FloatParameters == {"gain", "adc-range", "sample-rate"}

\* datasource::serialize; pad is what the padding of the electrodes holds.
serialize(param, value, pad) ==
    IF param \in TextParameters THEN Utf8(value.v)
    ELSE IF param \in UIntParameters THEN Bytes32(value.v)
    ELSE IF param = "has-analog-output" THEN << IF value.v THEN 1 ELSE 0 >>
    ELSE IF param = "analog-output"
    THEN Bytes32(Len(value.v))
             \o RawData([i \in 1 .. Len(value.v) |-> DoubleBytes(value.v[i])])
    ELSE IF param \in FloatParameters THEN Bytes32(FloatBits(value.v))
    ELSE IF param = "configuration"
    THEN Bytes32(Len(value.v))
             \o RawData([i \in 1 .. Len(value.v) |-> ElectrodeBytes(value.v[i], pad)])
    ELSE << >>

\* std::memcpy of n bytes that start at the byte from of buffer.data(): past
\* the end of the buffer it copies what the memory there holds, over.
Copied(buffer, from, n, over) ==
    [i \in 1 .. n |-> IF from + i - 1 <= Len(buffer) THEN buffer[from + i - 1] ELSE over]

\* The process ends: QVector cannot be made with the size asked for (a count
\* of 2^31 or more is a negative int).
VCrash == [t |-> "crash", v |-> 0]

\* datasource::deserialize; over is what the memory past the buffer holds.
deserialize(param, buffer, over) ==
    IF param \in TextParameters THEN VBytes(buffer)
    ELSE IF param \in UIntParameters THEN VNumber(FromBytes32(Copied(buffer, 1, 4, over)))
    ELSE IF param = "analog-output"
    THEN LET size == FromBytes32(Copied(buffer, 1, 4, over)) IN
         IF size < 0 THEN VCrash
         ELSE VFloatVector([i \in 1 .. size |->
                  DoubleOfBytes(Copied(buffer, 4 + SizeofDouble * (i - 1) + 1,
                                       SizeofDouble, over))])
    ELSE IF param \in FloatParameters
    THEN VFloat(FloatOfBits(FromBytes32(Copied(buffer, 1, 4, over))))
    ELSE IF param = "configuration"
    THEN LET size == FromBytes32(Copied(buffer, 1, 4, over)) IN
         IF size < 0 THEN VCrash
         ELSE VConfiguration([i \in 1 .. size |->
                  ElectrodeOfBytes(Copied(buffer, 4 + SizeofElectrode * (i - 1) + 1,
                                          SizeofElectrode, over))])
    ELSE VInvalid

\* The bytes deserialize reads, counted from the start of buffer.data().
BytesRead(param, buffer, over) ==
    LET size == FromBytes32(Copied(buffer, 1, 4, over)) IN
    IF param \in TextParameters THEN Len(buffer)
    ELSE IF param \in UIntParameters \cup FloatParameters THEN 4
    ELSE IF param = "analog-output" THEN 4 + (IF size < 0 THEN 0 ELSE SizeofDouble * size)
    ELSE IF param = "configuration" THEN 4 + (IF size < 0 THEN 0 ELSE SizeofElectrode * size)
    ELSE 0

\* The values put on the wire: strings by their code points (the empty
\* string, 'a', 'hi' and one that takes two bytes), unsigned integers up to
\* the largest quint32, vectors of at most MaxVector elements.
TextValues == { << >>, <<97>>, <<104, 105>>, <<233>> }
UIntValues == {0, 1, 4, 65535, UnsetU32}
ElectrodeValues ==
    { [index |-> 0, xpos |-> 0, x |-> 0, ypos |-> 0, y |-> 0, label |-> 0],
      [index |-> 11010, xpos |-> 1000, x |-> 65535, ypos |-> UnsetU32, y |-> 7, label |-> 255] }
VectorsOf(S) == UNION { [1 .. k -> S] : k \in 0 .. MaxVector }

\* No parameter is on its way, and a parameter about to be serialized.
NoCodec ==
    [st |-> "idle", param |-> "", value |-> VInvalid, buffer |-> << >>, data |-> VInvalid,
     nread |-> 0]
ToSend(param, value) ==
    [st |-> "value", param |-> param, value |-> value, buffer |-> << >>, data |-> VInvalid,
     nread |-> 0]

CodecInit ==
    \/ \E param \in TextParameters : \E s \in TextValues : codec = ToSend(param, VText(s))
    \/ \E param \in UIntParameters : \E n \in UIntValues : codec = ToSend(param, VNumber(n))
    \/ \E b \in BOOLEAN : codec = ToSend("has-analog-output", VBool(b))
    \/ \E v \in VectorsOf(DoubleValues) : codec = ToSend("analog-output", VFloatVector(v))
    \/ \E param \in FloatParameters : \E f \in FloatValues : codec = ToSend(param, VFloat(f))
    \/ \E c \in VectorsOf(ElectrodeValues) : codec = ToSend("configuration", VConfiguration(c))

\* The sender serializes the parameter.
Serialize ==
    /\ codec.st = "value"
    /\ \E pad \in (IF codec.param = "configuration" /\ codec.value.v # << >>
                   THEN {0, 255} ELSE {0}) :
          codec' = [codec EXCEPT !.st = "wire",
                                 !.buffer = serialize(codec.param, codec.value, pad)]
    /\ UNCHANGED <<hid, net, op, out, now, base, bop, bout, fpga, acq, fsrc>>

\* What the memory past the end of a buffer may hold.
OverBytes == {0, 255}

\* The receiver is handed a buffer that misses the last byte.
ShortBuffer ==
    /\ codec.st = "wire"
    /\ codec.buffer # << >>
    /\ codec' = [codec EXCEPT !.buffer = SubSeq(@, 1, Len(@) - 1)]
    /\ UNCHANGED <<hid, net, op, out, now, base, bop, bout, fpga, acq, fsrc>>

\* The receiver deserializes the bytes.
Deserialize ==
    /\ codec.st = "wire"
    /\ \E over \in OverBytes :
          codec' = [codec EXCEPT !.st = "read",
                                 !.data = deserialize(codec.param, codec.buffer, over),
                                 !.nread = BytesRead(codec.param, codec.buffer, over)]
    /\ UNCHANGED <<hid, net, op, out, now, base, bop, bout, fpga, acq, fsrc>>

HidensInit ==
    /\ hid \in {NewHidensSource(CtorState), NewHidensSource(LifecycleStartState)}
    /\ net = [rx |-> 0, pushing |-> FALSE]
    /\ op = "construct"
    /\ out = << >>

BaseInit ==
    /\ base = [m_state |-> CtorState, m_connectTime |-> NullTime]
    /\ bop = "construct"
    /\ bout = Emit("none", TRUE, "")

Init ==
    /\ HidensInit
    /\ BaseInit
    /\ now = 1
    /\ codec = NoCodec
    /\ fpga = NoUpload
    /\ acq = NoStream
    /\ fsrc = NoFileSource

Next ==
    \/ Initialize
    \/ ConnectionMade
    \/ ConnectionFailed
    \/ PeerClose
    \/ StartStream
    \/ StopStream
    \/ SetPlug
    \/ SetConfigurationFile
    \/ SetOther
    \/ SendConfigToFpga
    \/ SendConfigToFpgaUnwatched
    \/ HandleConfigSendResponse
    \/ Tick
    \/ ServerPush
    \/ AskHidensSpin

Spec == Init /\ [][Next]_vars

\* The scheduling the program relies on: the worker running sendConfigToFpga
\* returns (its waits are bounded), the event loop delivers the watcher's
\* finished() as long as it runs, and the socket reports a connection
\* attempt as made or failed.
SpecFair ==
    /\ Spec
    /\ WF_vars(SendConfigToFpga)
    /\ WF_vars(HandleConfigSendResponse)
    /\ WF_vars(ConnectionMade \/ ConnectionFailed)

CodecSpecInit ==
    /\ hid = NewHidensSource(CtorState)
    /\ net = [rx |-> 0, pushing |-> FALSE]
    /\ op = "construct"
    /\ out = << >>
    /\ BaseInit
    /\ now = 1
    /\ CodecInit
    /\ fpga = NoUpload
    /\ acq = NoStream
    /\ fsrc = NoFileSource

CodecNext ==
    \/ Serialize
    \/ Deserialize

SpecCodec == CodecSpecInit /\ [][CodecNext]_vars

ShortNext ==
    \/ Serialize
    \/ ShortBuffer
    \/ Deserialize

SpecShort == CodecSpecInit /\ [][ShortNext]_vars

UploadSpecInit ==
    /\ hid = NewHidensSource(CtorState)
    /\ net = [rx |-> 0, pushing |-> FALSE]
    /\ op = "construct"
    /\ out = << >>
    /\ BaseInit
    /\ now = 1
    /\ codec = NoCodec
    /\ UploadInit
    /\ acq = NoStream
    /\ fsrc = NoFileSource

UploadNext ==
    \/ WaitForConnected
    \/ ReadConfigFile
    \/ WriteConfigData
    \/ FinishUpload

SpecUpload == UploadSpecInit /\ [][UploadNext]_vars

\* The worker runs on a thread of the global thread pool, which the
\* operating system keeps scheduling; each of its waits is bounded by its
\* timeout of 10 s.
SpecUploadFair == SpecUpload /\ WF_vars(UploadNext)

StreamSpecInit ==
    /\ hid = NewHidensSource(CtorState)
    /\ net = [rx |-> 0, pushing |-> FALSE]
    /\ op = "construct"
    /\ out = << >>
    /\ BaseInit
    /\ now = 1
    /\ codec = NoCodec
    /\ fpga = NoUpload
    /\ StreamInit
    /\ fsrc = NoFileSource

StreamNext ==
    \/ StreamPush
    \/ StreamTick

SpecStream == StreamSpecInit /\ [][StreamNext]_vars

FileSpecInit ==
    /\ hid = NewHidensSource(CtorState)
    /\ net = [rx |-> 0, pushing |-> FALSE]
    /\ op = "construct"
    /\ out = << >>
    /\ BaseInit
    /\ now = 1
    /\ codec = NoCodec
    /\ fpga = NoUpload
    /\ acq = NoStream
    /\ FileSourceInit

FileNext ==
    \/ FileInitialize
    \/ FileStartStream
    \/ FileStopStream
    \/ FileTick

SpecFile == FileSpecInit /\ [][FileNext]_vars

\* An active QTimer fires as long as the event loop runs.
SpecFileFair == SpecFile /\ WF_vars(FileTick)

BaseNext ==
    \/ BaseConnect
    \/ BaseDisconnect
    \/ BaseStartStream
    \/ BaseStopStream
    \/ BaseSet
    \/ BaseGet
    \/ Tock

SpecBase == Init /\ [][BaseNext]_vars

(***************************************************************************)
(* Properties.                                                             *)
(***************************************************************************)
\* A handler that answered with the one signal e and did nothing else.
OnlyAnswer(e) ==
    /\ out' = <<e>>
    /\ hid' = hid
    /\ net' = net

\* C1: a HidensSource request issued outside its originating state
\* (initialize when not invalid, startStream when not initialized, stopStream
\* when not streaming, set of a settable parameter when not initialized) is
\* answered with a failure reply, leaves the state, every stored field, the
\* read timer and the connection unchanged, and sends nothing to the server.
C1_RefusedRequestHasNoEffect ==
    [][ /\ (hid.m_state # "invalid" /\ Initialize)
            => OnlyAnswer(Emit("initialized", FALSE, MsgInitState))
        /\ (hid.m_state # "initialized" /\ StartStream)
            => OnlyAnswer(Emit("streamStarted", FALSE, MsgStartState))
        /\ (hid.m_state # "streaming" /\ StopStream)
            => OnlyAnswer(Emit("streamStopped", FALSE, MsgStopState))
        /\ (hid.m_state # "initialized" /\ (SetPlug \/ SetConfigurationFile \/ SetOther))
            => /\ hid' = hid
               /\ net' = net
               /\ Len(out') = 1
               /\ out'[1].k = "emit" /\ out'[1].n = "setResponse" /\ ~out'[1].ok
               /\ out'[1].p \in m_settableParameters => out'[1].msg = MsgSetState
      ]_vars

\* A set("plug") refused while streaming: the stream and its timer go on.
C1_Witness ==
    /\ op = "set"
    /\ out = <<EmitP("setResponse", "plug", FALSE, MsgSetState)>>
    /\ hid.m_state = "streaming"
    /\ hid.timer
    /\ hid.sock = "connected"

\* C2: the state of a HidensSource changes only along invalid -> initialized
\* (a successful handshake), initialized -> streaming (a successful
\* startStream) and streaming -> initialized (stopStream); any other change
\* is the error-handling transition, and that ends in the invalid state.
C2_OnlyLifecycleTransitions ==
    [][ hid'.m_state # hid.m_state =>
          \/ /\ hid.m_state = "invalid" /\ hid'.m_state = "initialized"
             /\ op' = "connected"
             /\ out'[Len(out')] = Emit("initialized", TRUE, "")
          \/ /\ hid.m_state = "initialized" /\ hid'.m_state = "streaming"
             /\ op' = "startStream"
             /\ out'[Len(out')] = Emit("streamStarted", TRUE, "")
          \/ /\ hid.m_state = "streaming" /\ hid'.m_state = "initialized"
             /\ op' = "stopStream"
             /\ out' = <<Emit("streamStopped", TRUE, "")>>
          \/ /\ Emits(out', "error") # << >>
             /\ hid'.m_state = "invalid"
      ]_vars

\* A streaming source hit by the error-handling transition.
C2_ErrorTransitionTaken ==
    /\ op = "disconnected"
    /\ out = <<Emit("error", FALSE, MsgDisconnected)>>
    /\ hid.timer
    /\ hid.m_state # "streaming"

\* The transition table of BaseSource: the request, the state it starts
\* from, the state it ends in and the signal that answers it.
C3_Table ==
    { [req |-> "connect", from |-> "disconnected", to |-> "connected", sig |-> "connected"],
      [req |-> "disconnect", from |-> "connected", to |-> "disconnected", sig |-> "disconnected"],
      [req |-> "startStream", from |-> "connected", to |-> "streaming", sig |-> "streamStarted"],
      [req |-> "stopStream", from |-> "streaming", to |-> "connected", sig |-> "streamStopped"] }

C3_Requests ==
    [connect |-> BaseConnect, disconnect |-> BaseDisconnect,
     startStream |-> BaseStartStream, stopStream |-> BaseStopStream]

\* C3: a connect, disconnect, startStream or stopStream request of a
\* BaseSource succeeds exactly when the state is the request's originating
\* state; on success the state becomes the destination, on failure the state
\* and the connect time are unchanged; streaming is entered from connected only.
C3_TransitionTable ==
    [][ /\ \A r \in C3_Table :
              C3_Requests[r.req] =>
                  /\ bout'.n = r.sig
                  /\ bout'.ok = (base.m_state = r.from)
                  /\ bout'.ok => base'.m_state = r.to
                  /\ ~bout'.ok => base' = base
        /\ (base'.m_state = "streaming" /\ base.m_state # "streaming")
              => base.m_state = "connected"
      ]_vars

\* A stream started on a source that was connected after the clock moved.
C3_Witness ==
    /\ bop = "startStream"
    /\ bout = Emit("streamStarted", TRUE, "")
    /\ base.m_state = "streaming"
    /\ base.m_connectTime > 1

\* The conditions under which a stream must not start.
C4_NoPlug(o) == o.m_plug = UnsetU32
C4_BadGain(o) ==
    \/ o.m_gain.k = "nan"
    \/ o.m_gain.k = "inf"
    \/ o.m_gain.k = "num" /\ (o.m_gain.v < 0 \/ o.m_gain.v > 10000)

\* C4: startStream in the initialized state fails with a message of its own,
\* sends nothing, starts no timer and leaves the state initialized when no
\* plug is selected, the Configuration is empty or the gain is NaN or outside
\* [0, 10000]; otherwise it succeeds and the state becomes streaming.
C4_StartStreamValidation ==
    [][ (hid.m_state = "initialized" /\ StartStream) =>
          IF C4_NoPlug(hid) \/ hid.m_configuration = << >> \/ C4_BadGain(hid)
          THEN /\ hid' = hid
               /\ net' = net
               /\ Len(out') = 1
               /\ out'[1].k = "emit" /\ out'[1].n = "streamStarted" /\ ~out'[1].ok
               /\ out'[1].msg =
                     (IF C4_NoPlug(hid) THEN MsgStartPlug
                      ELSE IF hid.m_configuration = << >> THEN MsgStartConfig
                      ELSE MsgStartGain)
          ELSE /\ hid'.m_state = "streaming"
               /\ out'[Len(out')] = Emit("streamStarted", TRUE, "")
      ]_vars

\* A start refused for its gain alone: plug and configuration are in place.
C4_Witness ==
    /\ op = "startStream"
    /\ out = <<Emit("streamStarted", FALSE, MsgStartGain)>>
    /\ hid.m_state = "initialized"
    /\ ~C4_NoPlug(hid)
    /\ hid.m_configuration # << >>

\* The commands of the handshake in the order they must go out, and what
\* makes the reply to the i-th of them acceptable.
C5_Commands ==
    <<"setbytes", "header_frameno off", "client_name blds", "sr", "gain 0", "adc_range">>
C5_Accepted(i, r) == IF i <= 3 THEN ~StartsWithError(r) ELSE ToFloat(r)[1]

\* The number of commands among the first j events of the trace tr.
C5_SentBy(tr, j) == Len(Sends(SubSeq(tr, 1, j)))

\* C5: once the connection is made the handshake sends 'setbytes',
\* 'header_frameno off', 'client_name', 'sr', 'gain 0', 'adc_range' in that
\* order, each only after the reply to the one before was received and
\* accepted, and the state becomes initialized (connect time recorded,
\* initialized(true) emitted) only after all six replies were accepted.
C5_HandshakeInOrder ==
    op = "connected" =>
        /\ Len(Sends(out)) <= 6
        /\ \A i \in 1 .. Len(Sends(out)) : Sends(out)[i] = Send(C5_Commands[i])
        /\ \A j \in 2 .. Len(out) :
              out[j].k = "send" =>
                  /\ out[j - 1].k = "recv"
                  /\ C5_Accepted(C5_SentBy(out, j - 1), out[j - 1].n)
        /\ (hid.m_state = "initialized" \/ Emits(out, "initialized") = <<Emit("initialized", TRUE, "")>>)
              => /\ Len(Sends(out)) = 6
                 /\ Len(out) = 13
                 /\ out[12].k = "recv" /\ C5_Accepted(6, out[12].n)
                 /\ out[13] = Emit("initialized", TRUE, "")
                 /\ hid.m_state = "initialized"
                 /\ hid.m_connectTime = now

\* A handshake that went through: six commands, six replies, initialized.
C5_Witness ==
    /\ op = "connected"
    /\ hid.m_state = "initialized"
    /\ Len(Sends(out)) = 6
    /\ hid.m_connectTime # NullTime

\* The handshake failed: the connection could not be made, a reply was not
\* acceptable, or no reply came (the timeout raises an error).
C6_Failed ==
    \/ op = "socketError" /\ out # << >>
    \/ /\ op = "connected"
       /\ \E j \in 1 .. Len(out) :
             \/ out[j].k = "recv" /\ ~C5_Accepted(C5_SentBy(out, j), out[j].n)
             \/ out[j] = Emit("error", FALSE, MsgTimeout)

\* C6: a handshake that fails aborts at the failing step: no later command
\* is sent, the connection is torn down, exactly one initialized(false, ...)
\* is emitted, and the state is left at invalid.
C6_HandshakeAborts ==
    C6_Failed =>
        /\ \A j \in 1 .. Len(out) :
              (out[j].k = "recv" /\ ~C5_Accepted(C5_SentBy(out, j), out[j].n))
                \/ out[j] = Emit("error", FALSE, MsgTimeout)
              => \A i \in (j + 1) .. Len(out) : out[i].k # "send"
        /\ hid.sock = "unconnected" \/ hid.pendingClose
        /\ Len(Emits(out, "initialized")) = 1
        /\ ~out[Len(out)].ok /\ out[Len(out)].n = "initialized"
        /\ hid.m_state = "invalid"

\* The connection is closed, or will be as soon as it is made, and no
\* handler is hooked to the socket any more.
TornDown(o) ==
    /\ o.sock = "unconnected" \/ o.pendingClose
    /\ ~o.initHooks
    /\ ~o.discHook

\* C7: when a blocking wait for a reply runs out (in the handshake, in
\* set("plug") or in the configuration retrieval) the error-handling
\* transition runs: the connection is torn down, the state becomes invalid
\* with the device-derived fields cleared, an error is emitted, and the
\* handler returns instead of hanging.
C7_TimeoutRunsErrorTransition ==
    (\E j \in 1 .. Len(out) : out[j] = Emit("error", FALSE, MsgTimeout)) =>
        /\ TornDown(hid)
        /\ hid.m_state = "invalid"
        /\ DeviceFieldsCleared(hid)
        /\ ~hid.hung

\* C8: after a successful handshake (state initialized or streaming) an
\* unexpected disconnection of the socket runs the error-handling transition
\* exactly once, with the message 'Unexpectedly disconnected from HiDens
\* data server.', and the state becomes invalid.
C8_DisconnectRunsErrorTransition ==
    [][ (hid.m_state \in {"initialized", "streaming"} /\ PeerClose) =>
          /\ out' = <<Emit("error", FALSE, "Unexpectedly disconnected from HiDens data server.")>>
          /\ hid'.m_state = "invalid"
      ]_vars

\* The fields the error-handling transition must reset, at their unset values.
C9_Reset(o) ==
    /\ o.m_gain = NaN
    /\ o.m_adcRange = NaN
    /\ o.m_nchannels = 0
    /\ o.m_plug = UnsetU32
    /\ o.m_chipId = UnsetU32
    /\ o.m_trigger = "none"
    /\ o.m_analogOutput = << >>
    /\ o.m_configuration = << >>

\* What the error-handling transition must have made of the object.
C9_After(o) ==
    /\ o.m_state \in {"invalid", "disconnected"}
    /\ o.sock = "unconnected" \/ o.pendingClose
    /\ C9_Reset(o)

\* C9: the error-handling transition, run in any state, ends with the state
\* invalid/disconnected, the connection torn down and gain, ADC range,
\* channel count, plug, chip id, trigger, analog output and Configuration
\* reset, emits one error, and run twice in a row leaves what one run leaves.
\* It is stated of the transition run on every reachable object, and of the
\* object left by a disconnection, which runs the transition and nothing else.
C9_ErrorTransition ==
    /\ LET once == handleError(Ctx(hid), MsgDisconnected)
           twice == handleError(Ctx(once.h), MsgDisconnected)
       IN  /\ C9_After(once.h)
           /\ once.out = <<Emit("error", FALSE, MsgDisconnected)>>
           /\ twice.h = once.h
           /\ twice.out = once.out
    /\ (op = "disconnected" /\ out # << >>) =>
           /\ C9_After(hid)
           /\ Len(Emits(out, "error")) = 1

\* The transition has run on a streaming source with plug, chip and
\* configuration in place: the upload started in that session outlives it.
C9_Witness ==
    /\ op = "disconnected"
    /\ out = <<Emit("error", FALSE, MsgDisconnected)>>
    /\ hid.timer
    /\ hid.m_configurationFile # ""
    /\ C9_Reset(hid)

\* C10: a set("plug", n) in the initialized state that fails, whether for
\* its value, for an error reply to 'select' or for a chip id that is not a
\* number or is 65535, leaves the stored plug unset.
C10_FailedPlugIsUnset ==
    (/\ op = "set"
     /\ out # << >>
     /\ out[Len(out)].k = "emit" /\ out[Len(out)].n = "setResponse"
     /\ out[Len(out)].p = "plug" /\ ~out[Len(out)].ok
     /\ out[Len(out)].msg # MsgSetState)
        => hid.m_plug = UnsetU32

\* The set("plug") handler replied success.
C11_Succeeded ==
    /\ op = "set"
    /\ \E j \in 1 .. Len(out) : out[j] = EmitP("setResponse", "plug", TRUE, "")

\* C11: set("plug", n) stores the plug and the chip id and replies success
\* only when n is an unsigned integer in [0, 4], the reply to 'select n' is
\* not an error and the reply to 'id' is a number other than 65535; 'select'
\* is sent before 'id', and 'ch 0-125' only after both replies were
\* accepted; in every state the stored plug is unset or in [0, 4].
C11_SetPlug ==
    /\ hid.m_plug = UnsetU32 \/ hid.m_plug \in 0 .. 4
    /\ op = "set" =>
          /\ \A j \in 1 .. Len(out) :
                /\ (out[j].k = "send" /\ out[j].n = "select") => j = 1 /\ out[j].a \in 0 .. 4
                /\ out[j] = Send("id") =>
                      /\ j = 3
                      /\ out[1].k = "send" /\ out[1].n = "select"
                      /\ out[2].k = "recv" /\ verifyReply(out[2].n)
                /\ out[j] = Send("ch 0-125") =>
                      /\ j = 6
                      /\ out[3] = Send("id")
                      /\ out[4].k = "recv"
                      /\ ToUInt(out[4].n)[1] /\ ToUInt(out[4].n)[2] # NoChipId
                      /\ out[5] = EmitP("setResponse", "plug", TRUE, "")
                /\ out[j] = EmitP("setResponse", "plug", TRUE, "") =>
                      /\ j = 5
                      /\ out[1].k = "send" /\ out[1].n = "select" /\ out[1].a \in 0 .. 4
                      /\ out[2].k = "recv" /\ verifyReply(out[2].n)
                      /\ out[3] = Send("id")
                      /\ out[4].k = "recv"
                      /\ ToUInt(out[4].n)[1] /\ ToUInt(out[4].n)[2] # NoChipId
          /\ (C11_Succeeded /\ Emits(out, "error") = << >>) =>
                /\ hid.m_plug = out[1].a
                /\ hid.m_chipId = ToUInt(out[4].n)[2]

\* A plug was selected: plug 4 holds the chip 1234, and the configuration
\* was asked for afterwards.
C11_Witness ==
    /\ C11_Succeeded
    /\ hid.m_plug = 4
    /\ hid.m_chipId = 1234
    /\ Len(out) >= 6 /\ out[6] = Send("ch 0-125")

\* The replies of a set that its validation rejected.
C12_Rejections ==
    { EmitP("setResponse", "plug", FALSE, MsgPlugRange),
      EmitP("setResponse", "configuration-file", FALSE, MsgNeedPlug),
      EmitP("setResponse", "configuration-file", FALSE, MsgFileFormat),
      EmitP("setResponse", "configuration-file", FALSE, MsgFileMissing),
      EmitP("setResponse", "configuration", FALSE, MsgSetConfiguration) }

\* C12: a set that validation rejects (a plug value that is not an integer
\* in [0, 4]; a configuration-file with no plug selected, with a name not
\* ending in '.cmdraw.nrk2' or naming no file; a direct set of
\* 'configuration') has no side effect: the state, the stored plug, the
\* chip id, the Configuration and the configuration-file path are what they
\* were, and nothing is sent to the server.
C12_RejectedSetHasNoSideEffect ==
    [][ (/\ hid.m_state = "initialized"
         /\ SetPlug \/ SetConfigurationFile \/ SetOther
         /\ out'[Len(out')] \in C12_Rejections)
        => /\ out' \in { <<e>> : e \in C12_Rejections }
           /\ hid'.m_state = hid.m_state
           /\ hid'.m_plug = hid.m_plug
           /\ hid'.m_chipId = hid.m_chipId
           /\ hid'.m_configuration = hid.m_configuration
           /\ hid'.m_configurationFile = hid.m_configurationFile
      ]_vars

\* The step in which the watcher reports the result of the upload.
C13_Reported ==
    /\ hid.future.st = "finished"
    /\ hid'.future.st = "reported"

\* C13: when the upload started by set("configuration-file", f) finishes
\* successfully, the Configuration is refreshed from the server, the stored
\* path is f and the request is reported as succeeded; when it finishes
\* unsuccessfully, the stored path is cleared and the request is reported as
\* failed with 'Could not send the configuration to the server.'.
C13_UploadResult ==
    [][ C13_Reported =>
          IF hid.future.ok
          THEN /\ \E i \in 1 .. Len(out') : out'[i] = Send("ch 0-125")
               /\ \E rep \in SessionReports :
                     hid'.m_configuration =
                         ParseConfiguration(ParseElectrodeIndices(rep.lines), 0)
               /\ hid'.m_configurationFile = hid.future.file
               /\ out'[Len(out')] = EmitP("setResponse", "configuration-file", TRUE, "")
          ELSE /\ hid'.m_configurationFile = ""
               /\ out' = <<EmitP("setResponse", "configuration-file", FALSE,
                                 "Could not send the configuration to the server.")>>
      ]_vars

\* The uploads that were started and have not reported their result: the
\* one the watcher waits for, and the ones still running that it lost.
C14_Outstanding(o) ==
    (IF o.future.st \in {"running", "finished"} THEN 1 ELSE 0) + o.orphans

\* C14: in every state at most one upload is outstanding: a second
\* set("configuration-file") cannot start an upload while an earlier one
\* has not reported its result.
C14_OneUpload == C14_Outstanding(hid) <= 1

\* The step in which a worker running sendConfigToFpga returns.
C15_WorkerReturns ==
    \/ hid.future.st = "running" /\ hid'.future.st = "finished"
    \/ hid'.orphans < hid.orphans

\* C15: every upload that was started reports its result to the source
\* exactly once, in the source's own thread: as long as it has not reported,
\* it stays the upload the watcher waits for, and the report runs
\* handleConfigSendResponse once; the worker running sendConfigToFpga
\* touches no field of the source.
C15_ReportedOnce ==
    [][ /\ hid.future.st \in {"running", "finished"} =>
              \/ hid'.future = hid.future /\ hid'.watchHook = hid.watchHook
              \/ /\ hid.future.st = "running"
                 /\ hid'.future = FinishedFuture(hid'.future.ok, hid.future.file)
                 /\ hid'.watchHook = hid.watchHook
              \/ C13_Reported
        /\ hid'.orphans = 0
        /\ C13_Reported =>
              /\ hid.watchHook >= 1
              /\ op' = "uploadFinished"
              /\ hid'.hung \/ Len(Emits(out', "setResponse")) = 1
        /\ C15_WorkerReturns =>
              /\ [hid' EXCEPT !.future = hid.future, !.orphans = hid.orphans] = hid
              /\ out' = out
      ]_vars

\* The reply each request handler owes, by the name of the handler.
C16_ReplyOf(o) ==
    CASE o = "initialize" -> "initialized"
      [] o = "connected" -> "initialized"
      [] o = "socketError" -> "initialized"
      [] o = "startStream" -> "streamStarted"
      [] o = "stopStream" -> "streamStopped"
      [] o = "set" -> "setResponse"
      [] o = "uploadFinished" -> "setResponse"
      [] OTHER -> "none"

\* A request whose answer is still to come: the connection asked for by
\* initialize is being made, or the upload asked for by
\* set("configuration-file") has not reported.
C16_Pending ==
    \/ hid.sock = "connecting" /\ hid.initHooks
    \/ hid.future.st \in {"running", "finished"}

\* The handler that ran last has answered with one reply of its kind.
C16_Answered ==
    /\ ~hid.hung
    /\ Len(Emits(out, C16_ReplyOf(op))) = 1

\* C16: every request, in any state and with any argument, is eventually
\* answered by exactly one reply of the matching kind: a handler that has
\* returned has either answered once or left the request pending, no
\* handler answers twice, and a pending request leads to its answer.
C16_EveryRequestAnswered ==
    /\ [](op \in {"initialize", "startStream", "stopStream", "set"}
            => /\ Len(Emits(out, C16_ReplyOf(op))) <= 1
               /\ C16_Answered \/ C16_Pending)
    /\ (op = "set" /\ out = << >> /\ hid.future.st = "running")
          ~> (op = "uploadFinished" /\ C16_Answered)
    /\ (op = "initialize" /\ out = << >> /\ hid.sock = "connecting")
          ~> (op \in {"initialize", "connected", "socketError"} /\ C16_Answered)

\* Every setResponse of a trace names the parameter param.
C17_Names(tr, param) ==
    \A i \in 1 .. Len(tr) :
        (tr[i].k = "emit" /\ tr[i].n = "setResponse") => tr[i].p = param

\* set(param, value) run on the object o replies once, with the outcome ok.
C17_Replies(c, param, ok) ==
    /\ C17_Names(c.out, param)
    /\ Len(Emits(c.out, "setResponse")) = 1
    /\ Emits(c.out, "setResponse")[1].ok = ok

\* The set requests of every reachable object that can take one: the reply
\* names the parameter asked for; a plug in [0, 4] that the server selects
\* and that holds a chip replies success, any other value failure; a
\* configuration file that cannot be uploaded replies failure.
C17_Synchronous ==
    ~hid.hung =>
        /\ \A value \in PlugValues : \A w1 \in SelectAnswers : \A w2 \in IdAnswers :
              LET c == set(Ctx(hid), "plug", value, w1, w2, TimedOutReport, HaveElectrodeList)
                  valid == VariantToUInt(value)[1] /\ ~UGreater(VariantToUInt(value)[2], 4)
              IN  /\ C17_Names(c.out, "plug")
                  /\ (hid.m_state = "initialized" /\ ~valid) => C17_Replies(c, "plug", FALSE)
                  /\ (/\ hid.m_state = "initialized" /\ valid /\ verifyReply(w1)
                      /\ ToUInt(w2)[1] /\ ToUInt(w2)[2] # NoChipId)
                        => C17_Replies(c, "plug", TRUE)
        /\ \A value \in FileValues :
              LET c == set(Ctx(hid), "configuration-file", value, NullReply, NullReply,
                           TimedOutReport, HaveElectrodeList)
              IN  /\ C17_Names(c.out, "configuration-file")
                  /\ ~(EndsWithNrk2(value) /\ FileExists(value))
                        => C17_Replies(c, "configuration-file", FALSE)
        /\ \A param \in SetParameters \ {"plug", "configuration-file"} :
              C17_Replies(set(Ctx(hid), param, "", NullReply, NullReply, TimedOutReport,
                              HaveElectrodeList),
                          param, FALSE)

\* C17: every setResponse carries the parameter name of the set request it
\* answers, the reply to set("configuration-file") that follows the upload
\* included; a valid value of a settable parameter replies success and an
\* invalid one failure.
C17_SetResponseNamesRequest ==
    /\ C17_Synchronous
    /\ op = "uploadFinished" => C17_Names(out, "configuration-file")

\* The names a get request is made with: the gettable ones, the ones
\* BaseSource::get knows that HidensSource does not make gettable, the empty
\* name and a name no source knows.
C18_Names ==
    HidensGettableParameters \cup {"trigger", "analog-output", "chip-id", "", "no-such-parameter"}

\* The current value of a gettable parameter of the object o.
C18_Value(o, name) ==
    CASE name = "connect-time" -> VText(DateToString(o.m_connectTime))
      [] name = "start-time" -> VText(DateToString(o.m_startTime))
      [] name = "state" -> VText(o.m_state)
      [] name = "nchannels" -> VNumber(o.m_nchannels)
      [] name = "has-analog-output" -> VBool(o.m_analogOutput # << >>)
      [] name = "gain" -> VFloat(o.m_gain)
      [] name = "adc-range" -> VFloat(o.m_adcRange)
      [] name = "read-interval" -> VNumber(m_readInterval)
      [] name = "sample-rate" -> VFloat(o.m_sampleRate)
      [] name = "source-type" -> VText(m_sourceType)
      [] name = "device-type" -> VText(m_deviceType)
      [] name = "configuration" -> VConfiguration(o.m_configuration)
      [] name = "configuration-file" -> VText(o.m_configurationFile)
      [] name = "plug" -> VNumber(o.m_plug)

\* Two QVariants hold the same value.
SameVariant(a, b) == a.t = b.t /\ a.v = b.v

\* C18: in every state get(name) replies valid = true with the current
\* value for every name of the source's gettable set (the base names and
\* 'configuration', 'configuration-file' and 'plug'), and valid = false
\* with a 'not a valid parameter' message for every other name.  (get
\* assigns to no member, so it changes no state.)
C18_GetRepliesForGettable ==
    \A name \in C18_Names :
        LET r == get(hid, HidensGettableParameters, name) IN
           /\ r.p = name
           /\ IF name \in HidensGettableParameters
              THEN r.valid /\ SameVariant(r.data, C18_Value(hid, name))
              ELSE ~r.valid /\ r.data = VText(MsgNotGettable)

\* C19: in every state requestStatus emits one status snapshot that holds a
\* key for every parameter of the source's gettable set (the base keys and
\* the keys HidensSource appends), each with the value get replies with at
\* that moment.
C19_StatusAgreesWithGet ==
    LET s == requestStatus(hid) IN
       /\ s.n = "status"
       /\ HidensGettableParameters \subseteq DOMAIN s.map
       /\ \A name \in HidensGettableParameters :
             LET r == get(hid, HidensGettableParameters, name) IN
                r.valid /\ SameVariant(s.map[name], r.data)

\* Two QVariants compare equal: values of one kind by their value, and a
\* byte array with a string by the string's UTF-8 bytes.
C20_Equal(a, b) ==
    IF a.t = b.t THEN a.v = b.v
    ELSE IF a.t = "bytes" /\ b.t = "text" THEN a.v = Utf8(b.v)
    ELSE FALSE

\* C20: for every parameter name that has a wire representation and every
\* value v of its kind (the empty vector, the configuration of no
\* electrodes and the largest quint32 included),
\* deserialize(name, serialize(name, v)) equals v.
C20_RoundTrip ==
    codec.st = "read" => C20_Equal(codec.data, codec.value)

\* The fields of an electrode one after the other, in the order of their
\* declaration.
C21_Fields(el) ==
    Bytes32(el.index) \o Bytes32(el.xpos) \o Bytes16(el.x) \o Bytes32(el.ypos)
        \o Bytes16(el.y) \o <<el.label>>

\* The layout serialize gives the parameters other than the configuration.
C21_FixedLayouts ==
    codec.st \in {"wire", "read"} =>
        /\ codec.param \in UIntParameters =>
              /\ Len(codec.buffer) = 4
              /\ \A i \in 1 .. 4 : codec.buffer[i] \in 0 .. 255
              /\ FromBytes32(codec.buffer) = codec.value.v
              /\ (codec.value.v = 1 => codec.buffer = <<1, 0, 0, 0>>)
        /\ codec.param = "has-analog-output" => Len(codec.buffer) = 1
        /\ codec.param \in FloatParameters => Len(codec.buffer) = 4
        /\ codec.param = "analog-output" =>
              /\ Len(codec.buffer) = 4 + 8 * Len(codec.value.v)
              /\ FromBytes32(SubSeq(codec.buffer, 1, 4)) = Len(codec.value.v)

\* C21: serialize produces buffers of the fixed layout of the parameter's
\* kind: 4 little-endian bytes for an unsigned integer, 1 byte for the
\* boolean, 4 bytes for a float, 4 + 8n bytes for n analog-output samples,
\* and 4 + 19n bytes for a configuration of n electrodes, each record
\* beginning with its fields in declaration order.
C21_SerializeLayout ==
    /\ C21_FixedLayouts
    /\ (codec.st \in {"wire", "read"} /\ codec.param = "configuration") =>
          LET n == Len(codec.value.v) IN
             /\ Len(codec.buffer) = 4 + 19 * n
             /\ FromBytes32(SubSeq(codec.buffer, 1, 4)) = n
             /\ \A i \in 1 .. n :
                   SubSeq(codec.buffer, 4 + 19 * (i - 1) + 1, 4 + 19 * (i - 1) + 17)
                       = C21_Fields(codec.value.v[i])

\* The buffer is shorter than the least length of the parameter's kind: 4
\* bytes for an unsigned integer or a float, and 4 + count * element size
\* for a vector whose count field says count.
C22_TooShort ==
    LET n == Len(codec.buffer) IN
    \/ codec.param \in UIntParameters \cup FloatParameters /\ n < 4
    \/ /\ codec.param \in {"analog-output", "configuration"}
       /\ \/ n < 4
          \/ n < 4 + FromBytes32(SubSeq(codec.buffer, 1, 4))
                       * (IF codec.param = "analog-output" THEN SizeofDouble
                          ELSE SizeofElectrode)

\* C22: deserialize, given a buffer shorter than the least length of the
\* parameter's kind, reports a codec error and reads no byte past the end
\* of the buffer.
C22_ShortBufferRejected ==
    (codec.st = "read" /\ C22_TooShort) =>
        /\ codec.data.t = "error"
        /\ codec.nread <= Len(codec.buffer)

\* The size of the Configuration is the number of connected channels.
C23_SizeIsChannelCount == Len(hid.m_configuration) = hid.m_nchannels

\* C23: in every state the Configuration holds no two electrodes with the
\* same index, and its size is the number of connected channels that the
\* last successful configuration query reported (zero after the
\* error-handling transition).
C23_ConfigurationInvariant ==
    /\ \A i, j \in 1 .. Len(hid.m_configuration) :
          hid.m_configuration[i].index = hid.m_configuration[j].index => i = j
    /\ C23_SizeIsChannelCount

\* C24: the bytes a command/reply exchange consumes are the server's reply
\* to the command just sent: buffered bytes of streamed frames leave the
\* socket only through the read timer's recvDataFrame (or with the
\* connection they came on), never as the reply read by set("plug") or by
\* the retrieval of the configuration, also after stopStream.
C24_RepliesAnswerTheCommand ==
    [][net'.rx < net.rx => op' \in {"tick", "connected"}]_vars

\* The result of a finished upload: the path it was given; success exactly
\* when the connection was made, the file exists and no write failed, and
\* then every byte of the file was written.
C25_Result ==
    fpga.pc = "done" =>
        /\ fpga.result[2] = fpga.file
        /\ fpga.result[1] <=> (fpga.connected /\ fpga.exists /\ ~fpga.failed)
        /\ fpga.result[1] => fpga.nwritten = fpga.size

C26_TickTrace(rx) ==
    Frames(rx \div m_bytesPerEmitFrame) \o <<SendA("stream", m_readInterval)>>

\* A successful startStream sent 'live <interval>' once and started the timer.
C26_Started ==
    (op = "startStream" /\ Len(Emits(out, "streamStarted")) = 1 /\ out[Len(out)].ok) =>
        /\ Sends(out) = <<SendA("live", m_readInterval)>>
        /\ hid.timer

\* C26: a successful startStream sends 'live <interval>' exactly once and
\* starts the read timer; every tick after it first emits the complete
\* frames the socket holds and then sends 'stream <interval>' exactly once.
C26_StreamProtocol ==
    [][/\ C26_Started'
       /\ Tick => /\ out' = C26_TickTrace(net.rx)
                  /\ net'.rx = net.rx % m_bytesPerEmitFrame]_vars

\* A trace with no command of the stream and no frame of samples.
C27_Quiet(tr) ==
    \A i \in 1 .. Len(tr) :
       /\ ~(tr[i].k = "send" /\ tr[i].n \in {"live", "stream"})
       /\ ~(tr[i].k = "emit" /\ tr[i].n = "dataAvailable")

C27_Stopped == op = "stopStream" /\ out = <<Emit("streamStopped", TRUE, "")>>

C28_Raw(f, r, i) == acq.raw[f][(i - 1) * m_hidensFrameSize + r + 1]

\* C28: in every emitted frame each sample of the auxiliary channel is 255
\* when bit 3 (0x08) of its raw byte is set, and 0 when it is clear.
C28_AuxiliarySamples ==
    \A f \in 1 .. Len(acq.frames) : \A i \in 1 .. AcqSamples :
       acq.frames[f].at[i][acq.frames[f].n_cols] =
          (IF (C28_Raw(f, m_hidensFrameSize - 1, i) \div 8) % 2 = 1 THEN 255 ELSE 0)

\* The connected channels: the positions of the channel report that hold an
\* electrode, ascending.
RECURSIVE C29_Connected(_, _)
C29_Connected(v, i) ==
    IF i > m_ntotalChannels - 1 THEN << >>
    ELSE (IF v[i] = 0 - 1 THEN << >> ELSE <<i>>) \o C29_Connected(v, i + 1)

\* C29: every emitted frame has one row per connected channel plus one, and
\* one column per sample of the read interval; row j holds the negated raw
\* samples of the j-th connected channel, the last row the auxiliary channel.
C29_FrameLayout ==
    \A f \in 1 .. Len(acq.frames) :
       LET conn == C29_Connected(acq.electrodes, 0)
           fr == acq.frames[f]
       IN  /\ fr.n_rows = Len(conn) + 1
           /\ fr.n_cols = AcqSamples
           /\ \A j \in 1 .. Len(conn) : \A i \in 1 .. AcqSamples :
                 fr.at[j][i] = 0 - C28_Raw(f, conn[j], i)

RECURSIVE C30_Flat(_)
C30_Flat(chunks) ==
    IF chunks = << >> THEN << >> ELSE Head(chunks) \o C30_Flat(Tail(chunks))

C31_Retrieved ==
    /\ op \in {"set", "uploadFinished"}
    /\ \E i \in 1 .. Len(out) : out[i].k = "send" /\ out[i].n = "ch 0-125"
    /\ Emits(out, "error") = << >>

\* C31: after a retrieval of the configuration from a report with k
\* non-blank lines, the Configuration holds the k parsed indices in channel
\* order, the channel count is k, and the row selection holds, ascending,
\* the k connected positions and the auxiliary row.
C31_RetrievalResult ==
    C31_Retrieved =>
       LET conn == C29_Connected(hid.m_electrodeIndices, 0) IN
          /\ hid.m_nchannels = Len(conn)
          /\ hid.m_configuration =
                [j \in 1 .. Len(conn) |-> [index |-> hid.m_electrodeIndices[conn[j]]]]
          /\ hid.m_channelIndices = conn \o <<m_hidensFrameSize - 1>>

\* C32: in every state the read timer is active only if the state is
\* streaming; in any other state, the one left by the error-handling
\* transition included, no tick runs.
C32_TimerOnlyWhileStreaming == hid.timer => hid.m_state = "streaming"

\* C33: askHidens terminates: a thread that is in its write loop after a
\* failed write leaves the loop.
C33_AskHidensTerminates == hid.hung ~> ~hid.hung

\* C34: whenever streamStarted(true) is emitted the state is streaming and
\* the connection is up; a step that starts the read timer ends in the
\* streaming state with the connection up.
C34_StartedMeansStreaming ==
    [][/\ (/\ op' = "startStream"
           /\ Len(Emits(out', "streamStarted")) = 1
           /\ out'[Len(out')].ok) =>
             (hid'.m_state = "streaming" /\ hid'.sock = "connected")
       /\ (~hid.timer /\ hid'.timer) =>
             (hid'.m_state = "streaming" /\ hid'.sock = "connected")]_vars

\* A stream was started over a connection that is up.
C34_Witness ==
    /\ op = "startStream"
    /\ out = <<SendA("live", m_readInterval), Emit("streamStarted", TRUE, "")>>
    /\ hid.m_state = "streaming"
    /\ hid.sock = "connected"
    /\ hid.timer

\* C35: a handler that emitted error has run the error-handling transition:
\* it leaves the state the transition ends in, never streaming or
\* initialized, with the connection torn down and the device-derived fields
\* cleared.
C35_ErrorMeansTransition ==
    Emits(out, "error") # << >> =>
       /\ hid.m_state \notin {"streaming", "initialized"}
       /\ hid.m_state = ErrorState
       /\ hid.sock # "connected"
       /\ DeviceFieldsCleared(hid)

\* C36: 'ch 0-125' is sent only by a handler that starts in the initialized
\* state: an upload whose result is delivered in another state triggers no
\* retrieval.
C36_RetrievalOnlyWhenInitialized ==
    [][(hid.m_state # "initialized" /\ (SetPlug \/ HandleConfigSendResponse)) =>
          ~\E i \in 1 .. Len(out') : out'[i].k = "send" /\ out'[i].n = "ch 0-125"]_vars

\* C37: the state a source is constructed in and the state the
\* error-handling transition ends in are states from which initialize is
\* accepted: an initialize request made there is not refused.
C37_InitializeAcceptedAfterError ==
    [][(hid.m_state \in {CtorState, ErrorState} /\ Initialize) =>
          out' # <<Emit("initialized", FALSE, MsgInitState)>>]_vars

\* The slot the server accepted a 'select' for within the trace tr, and the
\* identifier it then reported: <<found, slot, id reply>>.
C38_Selected(tr) ==
    IF \E i \in 1 .. (Len(tr) - 1) :
          tr[i].k = "send" /\ tr[i].n = "select" /\ tr[i + 1].k = "recv"
             /\ verifyReply(tr[i + 1].n)
    THEN LET i == CHOOSE i \in 1 .. (Len(tr) - 1) :
                     tr[i].k = "send" /\ tr[i].n = "select" /\ tr[i + 1].k = "recv"
             ids == {j \in 1 .. (Len(tr) - 1) :
                        tr[j].k = "send" /\ tr[j].n = "id" /\ tr[j + 1].k = "recv"}
         IN  <<TRUE, tr[i].a,
               IF ids = {} THEN NullReply ELSE tr[(CHOOSE j \in ids : TRUE) + 1].n>>
    ELSE <<FALSE, 0, NullReply>>

\* C38: after a set("plug") in which the server accepted 'select', a stored
\* plug that is set is the slot selected, and the stored chip id is the
\* identifier the server reported for it.
C38_PlugMirrorsServer ==
    (op = "set" /\ C38_Selected(out)[1] /\ hid.m_plug # UnsetU32) =>
       /\ hid.m_plug = C38_Selected(out)[2]
       /\ ToUInt(C38_Selected(out)[3]) = <<TRUE, hid.m_chipId>>

\* What a tick of the FileSource does: below the end of the file it reads
\* the frame at the position and advances by one frame; at the end it stops
\* the timer, resets the position, returns to initialized and emits
\* streamStopped(true) once.
C39_Tick ==
    FileTick =>
       IF fsrc.m_currentSample < fsrc.nsamples
       THEN /\ fsrc'.read[1] = fsrc.m_currentSample
            /\ fsrc'.read[1] < fsrc.nsamples
            /\ fsrc'.m_currentSample = fsrc.m_currentSample + fsrc.m_frameSize
            /\ fsrc'.m_state = "streaming"
       ELSE /\ ~fsrc'.timer
            /\ fsrc'.m_currentSample = 0
            /\ fsrc'.m_state = "initialized"
            /\ fsrc'.out = <<Emit("streamStopped", TRUE, MsgEndOfFile)>>

====
